---- MODULE Spec2Model ----
(***************************************************************************)
(* Request-safety layer of api_server.py: validate_filename (FilenameGuard),*)
(* check_rate_limit (RateLimiter), the per-handler file lookup              *)
(* (SafePathResolver), determine_workflow_directory / save_workflow_file    *)
(* (WorkflowClassifier and the save path).                                  *)
(*                                                                         *)
(* Text is modelled two ways.  Names that reach the filesystem are TLA+     *)
(* strings.  Inside validate_filename a string is the sequence of its       *)
(* Unicode code points, because urllib.parse.unquote works on bytes and     *)
(* can produce any code point.                                              *)
(***************************************************************************)
EXTENDS Integers, Sequences, FiniteSets, TLC

VARIABLES
    candidate,   \* SpecGuard: the filename string handed to validate_filename
    encodes,     \* SpecGuard: percent-encoding steps applied so far
    validated,   \* SpecGuard: TRUE once validate_filename has been called
    verdict,     \* SpecGuard: what validate_filename returned
    clock,       \* time.time(), in seconds
    rate_limit_storage,  \* client_ip -> list of admitted request timestamps
    log,         \* history: the check_rate_limit calls made, in order
    fs,          \* the filesystem: absolute path -> directory, file or symlink
    listing,     \* names of the entries of the workflows directory, in the
                 \* order iterdir() yields them
    db,          \* WorkflowStore: the filenames it has indexed
    response,    \* the outcome of the latest request
    inflight,    \* client_ip -> the upload of that client waiting for its body
    saved,       \* history: what save_workflow_file wrote, in order
    indexing,    \* TRUE while an index_workflow background task is queued
    document,    \* SpecClassify: the document handed to determine_workflow_directory
    labels,      \* SpecClassify: what each call on the document did, in order
    environ,     \* os.environ: the value of ADMIN_TOKEN
    reindex_request, \* the admin_token and force of the latest reindex request
    graph,       \* SpecDiagram: the nodes and connections handed to the renderer
    diagrams     \* SpecDiagram: what each call on them did, in order

----------------------------------------------------------------------------
(* Characters and code points *)

\* The printable ASCII characters in code-point order: 32..95 and 97..126
\* (the grave accent, 96, cannot be written in a string literal here and is
\* in none of the modelled inputs).
AsciiLow == " !\"#$%&'()*+,-./0123456789:;<=>?@ABCDEFGHIJKLMNOPQRSTUVWXYZ[\\]^_"

AsciiHigh == "abcdefghijklmnopqrstuvwxyz{|}~"

\* The characters of the modelled strings.
Characters ==
    { SubSeq(AsciiLow, i, i) : i \in 1..Len(AsciiLow) }
    \cup { SubSeq(AsciiHigh, i, i) : i \in 1..Len(AsciiHigh) }
    \cup { "\n", "\r", "\t", "é" }

\* ord(c) of each of them (evaluated once).
CodePointOf ==
    [ c \in Characters |->
        IF c = "\n" THEN 10
        ELSE IF c = "\r" THEN 13
        ELSE IF c = "\t" THEN 9
        ELSE IF c = "é" THEN 233
        ELSE IF \E i \in 1..Len(AsciiLow) : SubSeq(AsciiLow, i, i) = c
             THEN 31 + (CHOOSE i \in 1..Len(AsciiLow) : SubSeq(AsciiLow, i, i) = c)
        ELSE 96 + (CHOOSE i \in 1..Len(AsciiHigh) : SubSeq(AsciiHigh, i, i) = c) ]

\* ord(c) for a one-character string.
Ord(c) == CodePointOf[c]

\* A string as the sequence of its code points.
CodePoints(str) == [i \in 1..Len(str) |-> Ord(SubSeq(str, i, i))]

\* `pattern in s` for sequences.
Contains(s, pattern) ==
    \E i \in 1..(Len(s) - Len(pattern) + 1) :
        SubSeq(s, i, i + Len(pattern) - 1) = pattern

StartsWith(s, prefix) ==
    Len(s) >= Len(prefix) /\ SubSeq(s, 1, Len(prefix)) = prefix

EndsWith(s, suffix) ==
    Len(s) >= Len(suffix) /\ SubSeq(s, Len(s) - Len(suffix) + 1, Len(s)) = suffix

----------------------------------------------------------------------------
(* urllib.parse.unquote(s, errors="strict") *)

IsHexDigit(c) == (c \in 48..57) \/ (c \in 65..70) \/ (c \in 97..102)

HexValue(c) ==
    IF c \in 48..57 THEN c - 48
    ELSE IF c \in 65..70 THEN c - 55
    ELSE c - 87

\* unquote_to_bytes on the ASCII runs: every %XX with two hex digits becomes
\* one byte, every other ASCII character is its own byte, a % that is not
\* followed by two hex digits stays a literal %.  A non-ASCII character is
\* outside the ASCII runs and is passed through as itself (byte |-> FALSE).
RECURSIVE UnquoteUnits(_)
UnquoteUnits(s) ==
    IF s = <<>> THEN <<>>
    ELSE IF s[1] = 37 /\ Len(s) >= 3 /\ IsHexDigit(s[2]) /\ IsHexDigit(s[3])
         THEN <<[byte |-> TRUE, v |-> 16 * HexValue(s[2]) + HexValue(s[3])]>>
              \o UnquoteUnits(SubSeq(s, 4, Len(s)))
    ELSE <<[byte |-> s[1] < 128, v |-> s[1]]>> \o UnquoteUnits(Tail(s))

IsContinuation(units, i, lo, hi) ==
    i <= Len(units) /\ units[i].byte /\ units[i].v >= lo /\ units[i].v <= hi

\* Number of bytes of the well-formed UTF-8 sequence that starts at units[1],
\* 0 when the bytes there are not well-formed UTF-8 (bytes.decode raises).
Utf8Length(units) ==
    LET b == units[1].v IN
    IF b < 128 THEN 1
    ELSE IF b \in 194..223 /\ IsContinuation(units, 2, 128, 191) THEN 2
    ELSE IF b = 224 /\ IsContinuation(units, 2, 160, 191)
                    /\ IsContinuation(units, 3, 128, 191) THEN 3
    ELSE IF b \in (225..236) \cup (238..239)
                    /\ IsContinuation(units, 2, 128, 191)
                    /\ IsContinuation(units, 3, 128, 191) THEN 3
    ELSE IF b = 237 /\ IsContinuation(units, 2, 128, 159)
                    /\ IsContinuation(units, 3, 128, 191) THEN 3
    ELSE IF b = 240 /\ IsContinuation(units, 2, 144, 191)
                    /\ IsContinuation(units, 3, 128, 191)
                    /\ IsContinuation(units, 4, 128, 191) THEN 4
    ELSE IF b \in 241..243 /\ IsContinuation(units, 2, 128, 191)
                    /\ IsContinuation(units, 3, 128, 191)
                    /\ IsContinuation(units, 4, 128, 191) THEN 4
    ELSE IF b = 244 /\ IsContinuation(units, 2, 128, 143)
                    /\ IsContinuation(units, 3, 128, 191)
                    /\ IsContinuation(units, 4, 128, 191) THEN 4
    ELSE 0

Utf8CodePoint(units, n) ==
    IF n = 1 THEN units[1].v
    ELSE IF n = 2 THEN (units[1].v - 192) * 64 + (units[2].v - 128)
    ELSE IF n = 3 THEN (units[1].v - 224) * 4096 + (units[2].v - 128) * 64
                       + (units[3].v - 128)
    ELSE (units[1].v - 240) * 262144 + (units[2].v - 128) * 4096
         + (units[3].v - 128) * 64 + (units[4].v - 128)

\* bytes.decode("utf-8", "strict") over the units: ok |-> FALSE is the
\* UnicodeDecodeError.
RECURSIVE Utf8Decode(_)
Utf8Decode(units) ==
    IF units = <<>> THEN [ok |-> TRUE, s |-> <<>>]
    ELSE IF ~units[1].byte
         THEN LET rest == Utf8Decode(Tail(units))
              IN  [ok |-> rest.ok, s |-> <<units[1].v>> \o rest.s]
    ELSE LET n == Utf8Length(units) IN
         IF n = 0 THEN [ok |-> FALSE, s |-> <<>>]
         ELSE LET rest == Utf8Decode(SubSeq(units, n + 1, Len(units)))
              IN  [ok |-> rest.ok, s |-> <<Utf8CodePoint(units, n)>> \o rest.s]

\* unquote returns the string itself when it holds no %.
Unquote(s) ==
    IF ~Contains(s, <<37>>) THEN [ok |-> TRUE, s |-> s]
    ELSE Utf8Decode(UnquoteUnits(s))

----------------------------------------------------------------------------
(* validate_filename *)

\* range(3): the number of decoding passes.
DecodeRounds == 3

\* `rounds` passes of unquote; ok |-> FALSE as soon as one pass raises.
RECURSIVE DecodeTimes(_, _)
DecodeTimes(s, rounds) ==
    IF rounds = 0 THEN [ok |-> TRUE, s |-> s]
    ELSE LET once == Unquote(s) IN
         IF ~once.ok THEN once ELSE DecodeTimes(once.s, rounds - 1)

\* dangerous_patterns
DangerousPatterns ==
    { CodePoints(".."), CodePoints("..\\"), CodePoints("../"),
      CodePoints("\\"), CodePoints("/"), <<0>>, CodePoints("\n"),
      CodePoints("\r"), CodePoints("~"), CodePoints(":"), CodePoints("|"),
      CodePoints("<"), CodePoints(">"), CodePoints("*"), CodePoints("?"),
      CodePoints("$"), CodePoints(";"), CodePoints("&") }

HasDangerousPattern(decoded) ==
    \E pattern \in DangerousPatterns : Contains(decoded, pattern)

IsAbsolutePath(decoded) ==
    StartsWith(decoded, CodePoints("/")) \/ StartsWith(decoded, CodePoints("\\"))

HasDriveLetter(decoded) == Len(decoded) >= 2 /\ decoded[2] = 58

\* The character class [a-zA-Z0-9_\-].
SafeCharLoose(c) ==
    (c \in 97..122) \/ (c \in 65..90) \/ (c \in 48..57) \/ c = 95 \/ c = 45
    \/ c = 46 \/ c = 32

SafeChar(c) ==
    (c \in 97..122) \/ (c \in 65..90) \/ (c \in 48..57) \/ c = 95 \/ c = 45

\* [a-zA-Z0-9_\-]+\.json over the whole of s.
MatchesWhole(s) ==
    /\ Len(s) >= 6
    /\ EndsWith(s, CodePoints(".json"))
    /\ \A i \in 1..(Len(s) - 5) : SafeChar(s[i])

\* re.match(r"^[a-zA-Z0-9_\-]+\.json$", s): without re.MULTILINE, $ matches at
\* the end of the string and also just before a newline that ends the string.
ReMatch(s) ==
    \/ MatchesWhole(s)
    \/ (Len(s) >= 1 /\ s[Len(s)] = 10 /\ MatchesWhole(SubSeq(s, 1, Len(s) - 1)))

\* Only the final "ends with .json" test: the checks a first version had.
ChecksPassSuffixOnly(decoded) == EndsWith(decoded, CodePoints(".json"))

\* The checks on the decoded string (lines 110-152), in the code's order.
ChecksPass(decoded) ==
    IF HasDangerousPattern(decoded) THEN FALSE
    ELSE IF IsAbsolutePath(decoded) THEN FALSE
    ELSE IF HasDriveLetter(decoded) THEN FALSE
    ELSE IF ~ReMatch(decoded) THEN FALSE
    ELSE IF ~EndsWith(decoded, CodePoints(".json")) THEN FALSE
    ELSE TRUE

\* filename is a sequence of code points.
validate_filename(filename) ==
    LET decoded == DecodeTimes(filename, DecodeRounds) IN
    IF ~decoded.ok THEN FALSE ELSE ChecksPass(decoded.s)

\* The exceptions a call of validate_filename can meet: unquote's on bytes
\* that are not UTF-8, and an index past the end of the string.
Exceptions == {"UnicodeDecodeError", "IndexError"}

\* An except clause that names an exception unquote does not raise.
ExceptCatchesTypeError(exception) == exception = "TypeError"

\* Lines 107-108: the bare `except:` around unquote.
ExceptCatches(exception) == exception \in Exceptions

\* Line 143: decoded[1] is evaluated only behind `len(decoded) >= 2 and`.
DriveIndexEvaluated(decoded) == Len(decoded) >= 2

\* The exception that leaves validate_filename(filename), "" when the call
\* returns.
ValidateRaised(filename) ==
    IF ~DecodeTimes(filename, DecodeRounds).ok
    THEN IF ExceptCatches("UnicodeDecodeError") THEN "" ELSE "UnicodeDecodeError"
    ELSE IF /\ ~HasDangerousPattern(DecodeTimes(filename, DecodeRounds).s)
            /\ ~IsAbsolutePath(DecodeTimes(filename, DecodeRounds).s)
            /\ DriveIndexEvaluated(DecodeTimes(filename, DecodeRounds).s)
            /\ Len(DecodeTimes(filename, DecodeRounds).s) < 2
    THEN "IndexError"
    ELSE ""

----------------------------------------------------------------------------
(* SpecGuard: validate_filename over constructed candidates *)

MaxStem == 1        \* characters of the free part of a candidate
MaxEncodes == 3     \* percent-encoding steps applied to a candidate

\* Characters the free part is built from.
StemAlphabet ==
    { Ord("a"), Ord("Z"), Ord("7"), Ord("_"), Ord("-"), Ord("."), Ord("/"),
      Ord("\\"), Ord(" "), Ord(":"), Ord("\n"), Ord("é") }

Stems == UNION { [1..n -> StemAlphabet] : n \in 0..MaxStem }

\* What a candidate starts with: nothing, a letter, a parent-directory
\* reference, and raw escape sequences: a byte that is not UTF-8, a truncated
\* two-byte sequence, an encoded letter, a % without hex digits.
Prefixes ==
    { <<>>, CodePoints("a"), CodePoints(".."), CodePoints("%ff"),
      CodePoints("%c3"), CodePoints("%61"), CodePoints("%zz") }

Suffixes == { <<>>, CodePoints(".json") }

BaseCandidates ==
    { p \o stem \o x : p \in Prefixes, stem \in Stems, x \in Suffixes }

HexDigits == "0123456789abcdef"

HexDigitAt(n) == Ord(SubSeq(HexDigits, n + 1, n + 1))

\* The percent-encoding of one character (UTF-8 bytes, each as %xx).
PercentEncode(c) ==
    LET bytes == IF c < 128 THEN <<c>>
                 ELSE <<192 + (c \div 64), 128 + (c % 64)>>
        Enc(b) == <<37, HexDigitAt(b \div 16), HexDigitAt(b % 16)>>
    IN  IF Len(bytes) = 1 THEN Enc(bytes[1]) ELSE Enc(bytes[1]) \o Enc(bytes[2])

IsAlnum(c) == (c \in 97..122) \/ (c \in 65..90) \/ (c \in 48..57)

GuardStart(c) ==
    /\ candidate = c
    /\ encodes = 0
    /\ validated = FALSE
    /\ verdict = FALSE

\* The caller percent-encodes one more character of the candidate (a
\* character other than a letter or digit; a % that an earlier step made
\* gives a double or triple encoding).
EncodeChar(i) ==
    /\ ~validated
    /\ encodes < MaxEncodes
    /\ ~IsAlnum(candidate[i])
    /\ candidate' = SubSeq(candidate, 1, i - 1) \o PercentEncode(candidate[i])
                    \o SubSeq(candidate, i + 1, Len(candidate))
    /\ encodes' = encodes + 1
    /\ UNCHANGED <<validated, verdict>>

Validate ==
    /\ ~validated
    /\ validated' = TRUE
    /\ verdict' = validate_filename(candidate)
    /\ UNCHANGED <<candidate, encodes>>

guardVars == <<candidate, encodes, validated, verdict>>

----------------------------------------------------------------------------
(* check_rate_limit *)

\* MAX_REQUESTS_PER_MINUTE is 60 in the source ("Configure as needed"); the
\* model runs the limiter with a small configured limit.
MAX_REQUESTS_PER_MINUTE == 3

\* The window of line 86, in seconds.
Window == 60

\* Caller identities (request.client.host).
Clients == {"10.0.0.1", "10.0.0.2"}

\* The values time.time() takes: two instants within one second, and instants
\* exactly one window and more than one window after each of them.
ClockReadings == {0, 1, 60, 61, 121}

\* check_rate_limit calls in one run of SpecRate.
MaxCalls == MAX_REQUESTS_PER_MINUTE + 2

\* The clean-up left out: every entry stays.
PrunedKeepsAll(record, current_time) == record

\* Lines 83-87: the entries kept by the clean-up.
Pruned(record, current_time) ==
    SelectSeq(record, LAMBDA timestamp : current_time - timestamp < Window)

\* An off-by-one in the limit test: > for >=.
RateAdmitsOffByOne(record, current_time) ==
    ~(Len(Pruned(record, current_time)) > MAX_REQUESTS_PER_MINUTE)

\* Lines 89-93: the value check_rate_limit returns.
RateAdmits(record, current_time) ==
    ~(Len(Pruned(record, current_time)) >= MAX_REQUESTS_PER_MINUTE)

\* The admitted request is appended to the list that was read before the
\* clean-up replaced it, so the stored list never gets it.
RecordAfterLostAppend(record, current_time) == Pruned(record, current_time)

\* The rejected call leaves its timestamp in the list as well.
RecordAfterCountsRejected(record, current_time) ==
    Append(Pruned(record, current_time), current_time)

\* Lines 83-93: the client's list after the call.
RecordAfter(record, current_time) ==
    IF RateAdmits(record, current_time)
    THEN Append(Pruned(record, current_time), current_time)
    ELSE Pruned(record, current_time)

\* The clean-up of lines 83-87 applied to every client's list.
StorageAfterCleanAll(storage, client_ip, current_time) ==
    [ c \in DOMAIN storage |->
        IF c = client_ip THEN RecordAfter(storage[c], current_time)
        ELSE Pruned(storage[c], current_time) ]

\* rate_limit_storage after check_rate_limit(client_ip): only
\* rate_limit_storage[client_ip] is read and assigned.
StorageAfter(storage, client_ip, current_time) ==
    [storage EXCEPT ![client_ip] = RecordAfter(@, current_time)]

rateVars == <<clock, rate_limit_storage, log>>

RateStart ==
    /\ clock = 0
    /\ rate_limit_storage = [c \in Clients |-> <<>>]
    /\ log = <<>>

\* One call check_rate_limit(client_ip).  The function is a plain def with no
\* await, called only from async def handlers, so the event loop runs it
\* from its first line to its return without running any other handler.
CheckRateLimit(client_ip) ==
    /\ Len(log) < MaxCalls
    /\ rate_limit_storage' = StorageAfter(rate_limit_storage, client_ip, clock)
    /\ log' = Append(log, [client |-> client_ip, t |-> clock,
                           ok |-> RateAdmits(rate_limit_storage[client_ip], clock)])
    /\ UNCHANGED clock

\* Time passes between two calls.
Tick ==
    /\ \E later \in ClockReadings : later > clock /\ clock' = later
    /\ UNCHANGED <<rate_limit_storage, log>>

----------------------------------------------------------------------------
(* The filesystem, as pathlib sees it.  A path is the sequence of its
   components from the filesystem root. *)

\* The process's working directory.
Cwd == <<"srv">>

\* Path("workflows").resolve(): the working directory holds a real directory
\* of that name.
WorkflowsPath == Cwd \o <<"workflows">>

DirNode == [kind |-> "dir", content |-> "", target |-> <<>>]

FileNode(content) == [kind |-> "file", content |-> content, target |-> <<>>]

LinkNode(target) == [kind |-> "link", content |-> "", target |-> target]

\* Symbolic links followed while resolving one path before the OS gives up.
MaxLinkDepth == 4

\* Path.resolve(): follow every symbolic link, component by component; a
\* component that does not exist is kept as it is.
RECURSIVE Canonical(_, _, _)
Canonical(done, rest, fuel) ==
    IF rest = <<>> THEN done
    ELSE LET next == Append(done, Head(rest)) IN
         IF next \in DOMAIN fs /\ fs[next].kind = "link" /\ fuel > 0
         THEN Canonical(<<>>, fs[next].target \o Tail(rest), fuel - 1)
         ELSE Canonical(next, Tail(rest), fuel)

Resolve(path) == Canonical(<<>>, path, MaxLinkDepth)

\* Path.exists(), Path.is_dir(), Path.is_file(): all follow symbolic links.
Exists(path) == Resolve(path) \in DOMAIN fs

IsDir(path) == Exists(path) /\ fs[Resolve(path)].kind = "dir"

IsFile(path) == Exists(path) /\ fs[Resolve(path)].kind = "file"

\* The containment test dropped.
RelativeToAlways(path, base) == TRUE

\* path.relative_to(base) does not raise ValueError: base is a prefix of path.
RelativeTo(path, base) ==
    Len(path) >= Len(base) /\ SubSeq(path, 1, Len(base)) = base

\* The directory entry a path names: symbolic links are followed in the
\* parent directories, not in the last component (what unlink removes).
EntryOf(path) ==
    Append(Resolve(SubSeq(path, 1, Len(path) - 1)), path[Len(path)])

\* What open(path).read() returns.
ContentOf(path) == fs[Resolve(path)].content

----------------------------------------------------------------------------
(* Locating a workflow file (the loop of lines 372-386, 424-439, 497-506,
   575-589) *)

\* `target_file.exists() and target_file.is_file()` in a subdirectory.
IsCandidate(subdir, filename) ==
    /\ IsDir(Append(WorkflowsPath, subdir))
    /\ Exists(WorkflowsPath \o <<subdir, filename>>)
    /\ IsFile(WorkflowsPath \o <<subdir, filename>>)

\* target_file.resolve().relative_to(workflows_path) does not raise.
IsContained(path) == RelativeTo(Resolve(path), Resolve(WorkflowsPath))

\* The subdirectories whose candidate passes the containment test, in
\* listing order: a candidate that fails it is skipped with `continue`.
ContainedHits(filename) ==
    SelectSeq(listing, LAMBDA subdir :
        /\ IsCandidate(subdir, filename)
        /\ IsContained(WorkflowsPath \o <<subdir, filename>>))

\* The last match kept instead of the first.
MatchingFileLast(filename) ==
    LET hits == ContainedHits(filename) IN
    IF hits = <<>> THEN <<>> ELSE WorkflowsPath \o <<hits[Len(hits)], filename>>

\* matching_file after the loop (json_files[0] in download_workflow);
\* <<>> stands for None.
MatchingFile(filename) ==
    LET hits == ContainedHits(filename) IN
    IF hits = <<>> THEN <<>> ELSE WorkflowsPath \o <<hits[1], filename>>

----------------------------------------------------------------------------
(* Python string methods, on strings *)

\* chr(n) for a printable ASCII code point.
Chr(n) ==
    IF n >= 97 THEN SubSeq(AsciiHigh, n - 96, n - 96)
    ELSE SubSeq(AsciiLow, n - 31, n - 31)

CharAt(str, i) == SubSeq(str, i, i)

LowerChar(c) == IF Ord(c) \in 65..90 THEN Chr(Ord(c) + 32) ELSE c

UpperChar(c) == IF Ord(c) \in 97..122 THEN Chr(Ord(c) - 32) ELSE c

\* str.lower()
RECURSIVE Lower(_)
Lower(str) ==
    IF str = "" THEN ""
    ELSE LowerChar(CharAt(str, 1)) \o Lower(SubSeq(str, 2, Len(str)))

\* str.capitalize(): the first character upper-cased, the rest lower-cased.
Capitalize(str) ==
    IF str = "" THEN ""
    ELSE UpperChar(CharAt(str, 1)) \o Lower(SubSeq(str, 2, Len(str)))

\* str.replace(old, ""), old not empty.
RECURSIVE Remove(_, _)
Remove(str, old) ==
    IF str = "" THEN ""
    ELSE IF StartsWith(str, old)
    THEN Remove(SubSeq(str, Len(old) + 1, Len(str)), old)
    ELSE CharAt(str, 1) \o Remove(SubSeq(str, 2, Len(str)), old)

\* str.split(sep)[0]: the part before the first sep.
RECURSIVE BeforeFirst(_, _)
BeforeFirst(str, sep) ==
    IF str = "" \/ StartsWith(str, sep) THEN ""
    ELSE CharAt(str, 1) \o BeforeFirst(SubSeq(str, 2, Len(str)), sep)

\* re's \w and \s on a str pattern: \w is a letter of any script, a digit
\* or the underscore.
IsWordChar(c) ==
    LET n == Ord(c) IN
    (n \in 48..57) \/ (n \in 65..90) \/ (n \in 97..122) \/ n = 95 \/ n > 127

IsSpaceChar(c) == c \in {" ", "\t", "\n", "\r"}

\* re.sub(r'[^\w\s-]', '', str)
RECURSIVE DropSymbols(_)
DropSymbols(str) ==
    IF str = "" THEN ""
    ELSE (IF IsWordChar(CharAt(str, 1)) \/ IsSpaceChar(CharAt(str, 1))
             \/ CharAt(str, 1) = "-"
          THEN CharAt(str, 1) ELSE "")
         \o DropSymbols(SubSeq(str, 2, Len(str)))

\* str.strip()
RECURSIVE Strip(_)
Strip(str) ==
    IF str = "" THEN ""
    ELSE IF IsSpaceChar(CharAt(str, 1)) THEN Strip(SubSeq(str, 2, Len(str)))
    ELSE IF IsSpaceChar(CharAt(str, Len(str)))
    THEN Strip(SubSeq(str, 1, Len(str) - 1))
    ELSE str

\* re.sub(r'[-\s]+', '_', str): every run of hyphens and spaces becomes one
\* underscore.
RECURSIVE JoinRuns(_, _)
JoinRuns(str, inRun) ==
    IF str = "" THEN ""
    ELSE IF CharAt(str, 1) = "-" \/ IsSpaceChar(CharAt(str, 1))
    THEN (IF inRun THEN "" ELSE "_") \o JoinRuns(SubSeq(str, 2, Len(str)), TRUE)
    ELSE CharAt(str, 1) \o JoinRuns(SubSeq(str, 2, Len(str)), FALSE)

\* re.sub(r'[^\w\-_.]', '_', str)
RECURSIVE Sanitize(_)
Sanitize(str) ==
    IF str = "" THEN ""
    ELSE (IF IsWordChar(CharAt(str, 1)) \/ CharAt(str, 1) \in {"-", "_", "."}
          THEN CharAt(str, 1) ELSE "_")
         \o Sanitize(SubSeq(str, 2, Len(str)))

----------------------------------------------------------------------------
(* Workflow documents and determine_workflow_directory *)

\* A value of a JSON object's key: a string, null, or the key is absent.
Str(text) == [kind |-> "str", s |-> text]

Null == [kind |-> "null", s |-> ""]

Absent == [kind |-> "absent", s |-> ""]

\* A JSON array.
ListOf(items) == [kind |-> "list", items |-> items]

\* `not value` for a value that is a list, null or absent with the default [].
IsEmptyList(value) ==
    value.kind \in {"absent", "null"} \/ (value.kind = "list" /\ value.items = <<>>)

\* dict.get(key, default)
Get(value, default) == IF value.kind = "absent" THEN Str(default) ELSE value

\* service_mappings, in the order the dict literal gives its keys.
service_mappings ==
    << <<"telegram", "Telegram">>, <<"discord", "Discord">>,
       <<"slack", "Slack">>, <<"gmail", "Gmail">>,
       <<"googlesheets", "Googlesheets">>, <<"googledrive", "Googledrive">>,
       <<"webhook", "Webhook">>, <<"http", "Http">>,
       <<"schedule", "Schedule">>, <<"cron", "Cron">>,
       <<"postgres", "Postgres">>, <<"mysql", "Mysqltool">>,
       <<"mongodb", "Mongodbtool">>, <<"airtable", "Airtable">>,
       <<"github", "Github">>, <<"gitlab", "Gitlab">>, <<"jira", "Jira">>,
       <<"openai", "Openai">>, <<"notion", "Notion">>,
       <<"shopify", "Shopify">>, <<"stripe", "Stripe">>,
       <<"twitter", "Twitter">>, <<"linkedin", "Linkedin">>,
       <<"facebook", "Facebook">>, <<"instagram", "Instagram">>,
       <<"whatsapp", "Whatsapp">>, <<"trello", "Trello">>,
       <<"asana", "Asana">>, <<"mondaycom", "Mondaycom">>,
       <<"dropbox", "Dropbox">>, <<"onedrive", "Microsoftonedrive">>,
       <<"outlook", "Microsoftoutlook">>, <<"calendly", "Calendly">>,
       <<"typeform", "Typeform">>, <<"youtube", "Youtube">>,
       <<"wordpress", "Wordpress">>, <<"woocommerce", "Woocommerce">> >>

GenericLabels == {"Manual", "Webhook", "Schedule"}

\* Lines 686-690: primary_service after the loop over service_mappings.  It
\* is entered with primary_service unset or generic, so the first key found
\* in the type or the name sets it.
AfterMappings(primary, node_type, node_name) ==
    LET found == SelectSeq(service_mappings, LAMBDA pair :
                     Contains(node_type, pair[1]) \/ Contains(node_name, pair[1]))
    IN  IF found # <<>> /\ (primary = "" \/ primary \in GenericLabels)
        THEN found[1][2] ELSE primary

\* Lines 676-683: primary_service after the webhook and the cron/schedule
\* tests ("" stands for None: the code only ever tests `not primary_service`).
AfterTriggers(primary, node_type, node_name) ==
    LET webhook == IF (Contains(node_type, "webhook") \/ Contains(node_name, "webhook"))
                      /\ (primary = "" \/ primary = "Manual")
                   THEN "Webhook" ELSE primary
    IN  IF (Contains(node_type, "cron") \/ Contains(node_type, "schedule"))
           /\ (webhook = "" \/ webhook = "Manual")
        THEN "Schedule" ELSE webhook

\* The scan going on to the next node whatever the label.
StopsScanNever(primary) == FALSE

\* Lines 692-693: the loop is left once primary_service is a specific label.
StopsScan(primary) == primary # "" /\ primary \notin GenericLabels

\* Lines 671-693: the loop over the nodes from node i on.  raised |-> TRUE
\* when .lower() is called on a null type or name (AttributeError).
RECURSIVE ScanNodes(_, _, _)
ScanNodes(nodes, i, primary) ==
    IF i > Len(nodes) THEN [raised |-> FALSE, label |-> primary]
    ELSE LET type == Get(nodes[i].type, "")
             name == Get(nodes[i].name, "")
         IN  IF type.kind = "null" \/ name.kind = "null"
             THEN [raised |-> TRUE, label |-> ""]
             ELSE LET next == AfterMappings(
                                  AfterTriggers(primary, Lower(type.s), Lower(name.s)),
                                  Lower(type.s), Lower(name.s))
                  IN  IF StopsScan(next)
                      THEN [raised |-> FALSE, label |-> next]
                      ELSE ScanNodes(nodes, i + 1, next)

\* Lines 695-708: the label taken from the first node's type.
FromFirstNode(nodes) ==
    LET first_node_type == Get(nodes[1].type, "") IN
    IF first_node_type.kind = "null" THEN [raised |-> TRUE, label |-> ""]
    ELSE IF Contains(first_node_type.s, "n8n-nodes-base.")
    THEN [raised |-> FALSE,
          label |-> Capitalize(BeforeFirst(
                        Remove(first_node_type.s, "n8n-nodes-base."), "."))]
    ELSE [raised |-> FALSE, label |-> "Manual"]

\* determine_workflow_directory(workflow_data); nodes is
\* workflow_data.get("nodes", []).
determine_workflow_directory(workflow_data) ==
    IF IsEmptyList(workflow_data.nodes) THEN [raised |-> FALSE, label |-> "Manual"]
    ELSE LET scan == ScanNodes(workflow_data.nodes.items, 1, "") IN
         IF scan.raised THEN scan
         ELSE IF scan.label \in {"", "Manual"}
         THEN FromFirstNode(workflow_data.nodes.items)
         ELSE scan

----------------------------------------------------------------------------
(* SpecClassify: determine_workflow_directory over constructed documents *)

MaxNodes == 2           \* nodes of a document
MaxClassifyCalls == 2   \* calls made on one document

\* What a node's "type" and "name" keys hold.
NodeTypes ==
    { Str("n8n-nodes-base.slack"), Str("n8n-nodes-base.webhook"),
      Str("n8n-nodes-base.cron"), Str("n8n-nodes-base.scheduleTrigger"),
      Str("n8n-nodes-base.set"), Str("custom.Tool"),
      Absent, Null }

NodeNames == { Str("Notify"), Str("Telegram relay"), Absent, Null }

ClassifyNodes == [type : NodeTypes, name : NodeNames]

\* The documents: without a nodes key, with a null one, and with every list
\* of up to MaxNodes nodes.
ClassifyDocs ==
    { [key |-> "doc", name |-> Absent, id |-> Absent, nodes |-> nodes] :
        nodes \in {Absent, Null}
                  \cup { ListOf(items) :
                           items \in UNION { [1..n -> ClassifyNodes] : n \in 0..MaxNodes } } }

classifyVars == <<document, labels>>

ClassifyIdle ==
    /\ document = [key |-> "none", name |-> Absent, id |-> Absent, nodes |-> Absent]
    /\ labels = <<>>

\* The label changes from one call to the next.
ClassifyCallUnstable(workflow_data, call) ==
    IF call % 2 = 1 THEN determine_workflow_directory(workflow_data)
    ELSE [raised |-> FALSE, label |-> "Manual"]

\* The call-th call on a document: the function reads its argument and the
\* literal service_mappings, whose keys a dict yields in the order written.
ClassifyCall(workflow_data, call) == determine_workflow_directory(workflow_data)

Classify ==
    /\ Len(labels) < MaxClassifyCalls
    /\ labels' = Append(labels, ClassifyCall(document, Len(labels) + 1))
    /\ UNCHANGED document

----------------------------------------------------------------------------
(* generate_mermaid_diagram (lines 759-827) *)

\* A JSON object of connections: its (key, value) pairs in document order.
DictOf(items) == [kind |-> "dict", items |-> items]

\* The value under a source name: an object with or without "main".
SourceDict(main) == [kind |-> "dict", main |-> main]

\* A target entry: an object with or without "node".
EntryDict(node) == [kind |-> "dict", node |-> node]

\* str(i) for a natural number.
RECURSIVE Digits(_)
Digits(n) ==
    IF n < 10 THEN Chr(48 + n) ELSE Digits(n \div 10) \o Chr(48 + (n % 10))

\* str.replace(old, new) for a one-character old.
RECURSIVE Replace(_, _, _)
Replace(str, old, new) ==
    IF str = "" THEN ""
    ELSE (IF CharAt(str, 1) = old THEN new ELSE CharAt(str, 1))
            \o Replace(SubSeq(str, 2, Len(str)), old, new)

\* "\n".join(lines)
RECURSIVE JoinLines(_)
JoinLines(lines) ==
    IF lines = <<>> THEN ""
    ELSE IF Len(lines) = 1 THEN lines[1]
    ELSE lines[1] \o "\n" \o JoinLines(Tail(lines))

\* f"node{i}", i counting from 0.
NodeId(i) == "node" \o Digits(i)

\* The key the first loop files node i under: node.get("name", f"Node {i}").
TableKey(nodes, i) == Get(nodes[i + 1].name, "Node " \o Digits(i))

\* The first node of a key kept instead of the last.
MermaidIdsFirstWins(nodes) ==
    [ key \in { TableKey(nodes, i) : i \in 0..(Len(nodes) - 1) } |->
        NodeId(CHOOSE i \in 0..(Len(nodes) - 1) :
                  /\ TableKey(nodes, i) = key
                  /\ \A j \in 0..(Len(nodes) - 1) : TableKey(nodes, j) = key => i <= j) ]

\* mermaid_ids after the first loop: a later node of the same key overwrites
\* the earlier one.
MermaidIds(nodes) ==
    [ key \in { TableKey(nodes, i) : i \in 0..(Len(nodes) - 1) } |->
        NodeId(CHOOSE i \in 0..(Len(nodes) - 1) :
                  /\ TableKey(nodes, i) = key
                  /\ \A j \in 0..(Len(nodes) - 1) : TableKey(nodes, j) = key => j <= i) ]

\* The style of a node type (lines 779-789).
StyleOf(node_type) ==
    LET lowered == Lower(node_type) IN
    IF \E x \in {"trigger", "webhook", "cron"} : Contains(lowered, x)
    THEN "fill:#b3e0ff,stroke:#0066cc"
    ELSE IF \E x \in {"if", "switch"} : Contains(lowered, x)
    THEN "fill:#ffffb3,stroke:#e6e600"
    ELSE IF \E x \in {"function", "code"} : Contains(lowered, x)
    THEN "fill:#d9b3ff,stroke:#6600cc"
    ELSE IF Contains(lowered, "error")
    THEN "fill:#ffb3b3,stroke:#cc0000"
    ELSE "fill:#d9d9d9,stroke:#666666"

\* The two lines of one node (lines 792-796).
NodeLines(node_id, node_name, node_type) ==
    << "  " \o node_id \o "[\"" \o Replace(node_name, "\"", "'") \o "<br>("
            \o Replace(node_type, "\"", "'") \o ")\"]",
       "  style " \o node_id \o " " \o StyleOf(node_type) >>

\* The name the second loop looks a node up by: node.get("name", "Unnamed").
DeclaredName(nodes, i) == Get(nodes[i].name, "Unnamed")

\* The second loop from node i on: mermaid_ids[node_name] raises KeyError
\* for a name that is not a key, .replace raises AttributeError on None.
RECURSIVE DeclareNodes(_, _, _, _)
DeclareNodes(mermaid_code, nodes, i, mermaid_ids) ==
    IF i > Len(nodes) THEN [raised |-> "", mermaid_code |-> mermaid_code]
    ELSE IF DeclaredName(nodes, i) \notin DOMAIN mermaid_ids
    THEN [raised |-> "KeyError", mermaid_code |-> mermaid_code]
    ELSE IF Get(nodes[i].type, "").kind # "str" \/ DeclaredName(nodes, i).kind # "str"
    THEN [raised |-> "AttributeError", mermaid_code |-> mermaid_code]
    ELSE DeclareNodes(
            mermaid_code \o NodeLines(mermaid_ids[DeclaredName(nodes, i)],
                                      DeclaredName(nodes, i).s,
                                      Remove(Get(nodes[i].type, "").s, "n8n-nodes-base.")),
            nodes, i + 1, mermaid_ids)

\* What iterating main_connections yields: the elements of a list, the
\* characters of a string.
MainItems(main_connections) ==
    IF main_connections.kind = "list" THEN main_connections.items
    ELSE [ i \in 1..Len(main_connections.s) |-> Str(CharAt(main_connections.s, i)) ]

\* Every arrow annotated with its output index.
ArrowAnnotated(i, ports) == " -->|" \o Digits(i) \o "| "

\* The arrow of output i of a source with ports outputs (line 821).
Arrow(i, ports) == IF ports > 1 THEN " -->|" \o Digits(i) \o "| " ELSE " --> "

\* The innermost loop from entry k on (lines 813-825): `in mermaid_ids`
\* raises TypeError for a target name that cannot be hashed.
RECURSIVE ConnectPort(_, _, _, _, _, _)
ConnectPort(mermaid_code, output_connections, k, source_id, label, mermaid_ids) ==
    IF k > Len(output_connections) THEN [raised |-> "", mermaid_code |-> mermaid_code]
    ELSE IF output_connections[k].kind # "dict" \/ output_connections[k].node.kind = "absent"
    THEN ConnectPort(mermaid_code, output_connections, k + 1, source_id, label, mermaid_ids)
    ELSE IF output_connections[k].node.kind \in {"list", "dict"}
    THEN [raised |-> "TypeError", mermaid_code |-> mermaid_code]
    ELSE IF output_connections[k].node \notin DOMAIN mermaid_ids
    THEN ConnectPort(mermaid_code, output_connections, k + 1, source_id, label, mermaid_ids)
    ELSE ConnectPort(
            Append(mermaid_code,
                   "  " \o source_id \o label \o mermaid_ids[output_connections[k].node]),
            output_connections, k + 1, source_id, label, mermaid_ids)

\* The loop over the outputs of one source from output i on (lines 809-825),
\* i counting from 0.
RECURSIVE ConnectOutputs(_, _, _, _, _)
ConnectOutputs(mermaid_code, main_items, i, source_id, mermaid_ids) ==
    IF i >= Len(main_items) THEN [raised |-> "", mermaid_code |-> mermaid_code]
    ELSE IF main_items[i + 1].kind # "list"
    THEN ConnectOutputs(mermaid_code, main_items, i + 1, source_id, mermaid_ids)
    ELSE LET port == ConnectPort(mermaid_code, main_items[i + 1].items, 1, source_id,
                                 Arrow(i, Len(main_items)), mermaid_ids)
         IN  IF port.raised # "" THEN port
             ELSE ConnectOutputs(port.mermaid_code, main_items, i + 1, source_id,
                                 mermaid_ids)

\* The loop over connections.items() from pair j on (lines 800-825):
\* enumerate(None) raises TypeError.
RECURSIVE ConnectSources(_, _, _, _)
ConnectSources(mermaid_code, items, j, mermaid_ids) ==
    IF j > Len(items) THEN [raised |-> "", mermaid_code |-> mermaid_code]
    ELSE IF Str(items[j][1]) \notin DOMAIN mermaid_ids
    THEN ConnectSources(mermaid_code, items, j + 1, mermaid_ids)
    ELSE IF items[j][2].kind # "dict" \/ items[j][2].main.kind = "absent"
    THEN ConnectSources(mermaid_code, items, j + 1, mermaid_ids)
    ELSE IF items[j][2].main.kind \notin {"list", "str"}
    THEN [raised |-> "TypeError", mermaid_code |-> mermaid_code]
    ELSE LET source == ConnectOutputs(mermaid_code, MainItems(items[j][2].main), 0,
                                      mermaid_ids[Str(items[j][1])], mermaid_ids)
         IN  IF source.raised # "" THEN source
             ELSE ConnectSources(source.mermaid_code, items, j + 1, mermaid_ids)

\* The connections loop: None.items() raises AttributeError.
Connect(declared, connections, mermaid_ids) ==
    IF declared.raised # "" THEN declared
    ELSE IF connections.kind # "dict"
    THEN [raised |-> "AttributeError", mermaid_code |-> declared.mermaid_code]
    ELSE ConnectSources(declared.mermaid_code, connections.items, 1, mermaid_ids)

\* What a call ends with: the exception it raises, or the text it returns.
Rendered(built) ==
    [ raised |-> built.raised,
      text |-> IF built.raised = "" THEN JoinLines(built.mermaid_code) ELSE "" ]

generate_mermaid_diagram(nodes, connections) ==
    IF IsEmptyList(nodes)
    THEN [raised |-> "", text |-> "graph TD\n  EmptyWorkflow[No nodes found in workflow]"]
    ELSE Rendered(Connect(DeclareNodes(<<"graph TD">>, nodes.items, 1,
                                       MermaidIds(nodes.items)),
                          connections, MermaidIds(nodes.items)))

----------------------------------------------------------------------------
(* Calls of generate_mermaid_diagram on one pair of arguments *)

MaxDiagramNodes == 2

MaxOutputs == 2

MaxRenderCalls == 2

\* Node names: two plain ones, the literal default of the second loop, a
\* missing one, a null one.
DiagramNames == { Str("A"), Str("B"), Str("Unnamed"), Absent, Null }

DiagramTypes == { Str("webhook"), Str("httpRequest"), Absent, Null }

\* Nodes with a type and a string or missing name, a node without a type,
\* and the two nodes that have a null in one place.
DiagramNodes ==
    [type : DiagramTypes \ {Absent, Null}, name : DiagramNames \ {Null}]
    \cup { [type |-> Absent, name |-> Str("B")],
           [type |-> Str("webhook"), name |-> Null],
           [type |-> Null, name |-> Str("A")] }

DiagramNodeLists ==
    {Null} \cup { ListOf(items) :
                    items \in UNION { [1..n -> DiagramNodes] : n \in 0..MaxDiagramNodes } }

\* Target entries: not an object, without "node", naming B, the literal
\* "Unnamed", a name no node has, and a "node" that is a list.
TargetEntries ==
    { Null, EntryDict(Absent), EntryDict(Str("B")), EntryDict(Str("Unnamed")),
      EntryDict(Str("X")), EntryDict(ListOf(<<>>)) }

\* One output's value: null, a list of one entry, a list of a known and an
\* unknown target, a list of two targets.
OutputValues ==
    {Null} \cup { ListOf(<<entry>>) : entry \in TargetEntries }
           \cup { ListOf(<<EntryDict(Str("B")), EntryDict(Str("X"))>>),
                  ListOf(<<EntryDict(Str("X")), EntryDict(Str("B"))>>),
                  ListOf(<<EntryDict(Str("B")), EntryDict(Str("A"))>>) }

\* The outputs of a source that has several.
PlainOutputs == { Null, ListOf(<<EntryDict(Str("B"))>>), ListOf(<<EntryDict(Str("X"))>>) }

\* The value under a source name: null, an object without "main", and a
\* "main" that is null, a string, or a list of outputs.
SourceValues ==
    { Null, SourceDict(Absent), SourceDict(Null), SourceDict(Str("B")) }
    \cup { SourceDict(ListOf(outputs)) :
             outputs \in UNION { [1..n -> IF n = 1 THEN OutputValues ELSE PlainOutputs] :
                                   n \in 0..MaxOutputs } }

\* Source names: a node name, the key the first loop gives a nameless first
\* node, a name no node has.
SourceNames == { "A", "Node 0", "X" }

\* The connections: null, empty, one source, and two sources of which the
\* first is unknown.
DiagramConnections ==
    { Null, DictOf(<<>>) }
    \cup { DictOf(<< <<source_name, value>> >>) :
             source_name \in SourceNames, value \in SourceValues }
    \cup { DictOf(<< <<"X", SourceDict(ListOf(<<ListOf(<<EntryDict(Str("B"))>>)>>))>>,
                     <<"A", value>> >>) :
             value \in { SourceDict(ListOf(<<ListOf(<<EntryDict(Str("B"))>>)>>)),
                         SourceDict(ListOf(<<ListOf(<<EntryDict(Str("X"))>>)>>)) } }

diagramVars == <<graph, diagrams>>

pureVars == <<classifyVars, diagramVars>>

DiagramIdle ==
    /\ graph = [nodes |-> Null, connections |-> Null]
    /\ diagrams = <<>>

\* The call-th call on the arguments: the function reads nothing but them.
RenderCall(nodes, connections, call) == generate_mermaid_diagram(nodes, connections)

Render ==
    /\ Len(diagrams) < MaxRenderCalls
    /\ diagrams' = Append(diagrams,
                          RenderCall(graph.nodes, graph.connections, Len(diagrams) + 1))
    /\ UNCHANGED graph

----------------------------------------------------------------------------
(* The filename save_workflow_file writes under (lines 721-747) *)

\* The documents uploaded.  key identifies the document: it stands for the
\* JSON text that json.dump writes.
DocSlack ==
    [ key |-> "slack", name |-> Str("Alerts"), id |-> Str("7"),
      nodes |-> ListOf(<< [type |-> Str("n8n-nodes-base.slack"),
                           name |-> Str("Notify")] >>) ]

DocTelegram ==
    [ key |-> "telegram", name |-> Str("Café bot"), id |-> Absent,
      nodes |-> ListOf(<< [type |-> Str("n8n-nodes-base.telegramTrigger"),
                           name |-> Str("On message")] >>) ]

DocAbs ==
    [ key |-> "abs", name |-> Absent, id |-> Str("9"),
      nodes |-> ListOf(<< [type |-> Str("n8n-nodes-base./etc"),
                           name |-> Str("Step")] >>) ]

UploadDocs == {DocSlack, DocTelegram, DocAbs}

\* The filenames of uploaded files: a name the guard accepts and one with a
\* second dot.  NoFilename stands for None: the document came as a form
\* field or as the request body.
NoFilename == ""

ProvidedNames == {"w.json", "my.flow.json"}

TwoDigits(n) == Chr(48 + (n \div 10)) \o Chr(48 + (n % 10))

\* datetime.now().strftime("%Y%m%d_%H%M%S") at clock reading t, the clock
\* counting seconds from midnight of a fixed day.
Timestamp(t) ==
    "19700101_" \o TwoDigits(t \div 3600) \o TwoDigits((t \div 60) % 60)
                \o TwoDigits(t % 60)

\* Lines 721-737: the name generated from the document's name and id.
\* raised |-> TRUE when re.sub is given a null name (TypeError).
GeneratedName(workflow_data, t) ==
    LET workflow_name == Get(workflow_data.name, "workflow")
        workflow_id == Get(workflow_data.id, "")
        clean_name == JoinRuns(Strip(DropSymbols(workflow_name.s)), FALSE)
    IN  IF workflow_name.kind = "null" THEN [raised |-> TRUE, filename |-> ""]
        ELSE IF workflow_id.kind = "str" /\ workflow_id.s # ""
        THEN [raised |-> FALSE,
              filename |-> workflow_id.s \o "_" \o clean_name \o ".json"]
        ELSE [raised |-> FALSE,
              filename |-> Timestamp(t) \o "_" \o clean_name \o ".json"]

WithJson(filename) ==
    IF EndsWith(filename, ".json") THEN filename ELSE filename \o ".json"

\* Lines 743-747: a name the guard rejects is sanitized, and written whether
\* or not the guard accepts it then.
Sanitized(filename) ==
    IF validate_filename(CodePoints(filename)) THEN filename
    ELSE WithJson(Sanitize(filename))

\* The filename save_workflow_file(workflow_data, filename) arrives at.
SaveName(workflow_data, filename, t) ==
    IF filename = NoFilename /\ GeneratedName(workflow_data, t).raised
    THEN [raised |-> TRUE, filename |-> ""]
    ELSE [ raised |-> FALSE,
           filename |-> Sanitized(WithJson(
                            IF filename # NoFilename THEN filename
                            ELSE GeneratedName(workflow_data, t).filename)) ]

\* SaveName and determine_workflow_directory on every upload (evaluated
\* once).
SaveNames ==
    [ workflow_data \in UploadDocs, filename \in ProvidedNames \cup {NoFilename},
      t \in ClockReadings |-> SaveName(workflow_data, filename, t) ]

SavedNames == { SaveNames[x].filename : x \in DOMAIN SaveNames }

Labels ==
    [ workflow_data \in UploadDocs |-> determine_workflow_directory(workflow_data) ]

----------------------------------------------------------------------------
(* The request handlers that carry a filename *)

\* A request's outcome.  file is the path the handler opened, served or
\* unlinked (<<>> when none), canonical its symlink-resolved form when the
\* handler ran, touched the store and filesystem operations the handler made,
\* inWindow the number of the caller's requests counted in the current
\* window when the request arrived.
Outcome(handler, client_ip, filename, status, file, touched) ==
    [ handler |-> handler, filename |-> filename, status |-> status,
      inWindow |-> Len(Pruned(rate_limit_storage[client_ip], clock)),
      file |-> file,
      canonical |-> IF file = <<>> THEN <<>> ELSE Resolve(file),
      content |-> IF file = <<>> THEN "" ELSE ContentOf(file),
      touched |-> touched ]

NoResponse == [ handler |-> "none", filename |-> "", status |-> 0,
                inWindow |-> 0, file |-> <<>>, canonical |-> <<>>, content |-> "",
                touched |-> {} ]

\* The filenames requests carry: the stored file, a valid name that no file
\* has, a traversal, and an encoded spelling of the stored file's name.
RequestNames == {"w.json", "x.json", "../w.json", "%77.json"}

\* validate_filename on each of them (evaluated once).
GuardVerdict ==
    [ name \in RequestNames \cup SavedNames |-> validate_filename(CodePoints(name)) ]

\* The two checks every handler starts with (lines 348-357, 410-419,
\* 475-484, 560-569): "400" when the guard rejects, "429" when the limiter
\* rejects, "pass" otherwise.
Gate(client_ip, filename) ==
    IF ~GuardVerdict[filename] THEN "400"
    ELSE IF ~RateAdmits(rate_limit_storage[client_ip], clock) THEN "429"
    ELSE "pass"

\* The limiter called before the guard: every request is counted.
RateAfterGateLimiterFirst(client_ip, filename) ==
    [rate_limit_storage EXCEPT ![client_ip] = RecordAfter(@, clock)]

\* The limiter's record after the two checks: check_rate_limit is called only
\* when the guard accepted.
RateAfterGate(client_ip, filename) ==
    IF ~GuardVerdict[filename] THEN rate_limit_storage
    ELSE [rate_limit_storage EXCEPT ![client_ip] = RecordAfter(@, clock)]

\* db.search_workflows(f'filename:"{filename}"', limit=1) finds the workflow.
InStore(filename) == filename \in db

\* get_workflow_detail, lines 343-402.
DetailOutcome(client_ip, filename) ==
    IF Gate(client_ip, filename) = "400"
    THEN Outcome("detail", client_ip, filename, 400, <<>>, {})
    ELSE IF Gate(client_ip, filename) = "429"
    THEN Outcome("detail", client_ip, filename, 429, <<>>, {})
    ELSE IF ~InStore(filename)
    THEN Outcome("detail", client_ip, filename, 404, <<>>, {"store"})
    ELSE IF MatchingFile(filename) = <<>>
    THEN Outcome("detail", client_ip, filename, 404, <<>>, {"store", "listdir"})
    ELSE Outcome("detail", client_ip, filename, 200, MatchingFile(filename),
                 {"store", "listdir", "read"})

\* download_workflow, lines 405-467.
DownloadOutcome(client_ip, filename) ==
    IF Gate(client_ip, filename) = "400"
    THEN Outcome("download", client_ip, filename, 400, <<>>, {})
    ELSE IF Gate(client_ip, filename) = "429"
    THEN Outcome("download", client_ip, filename, 429, <<>>, {})
    ELSE IF MatchingFile(filename) = <<>>
    THEN Outcome("download", client_ip, filename, 404, <<>>, {"listdir"})
    ELSE IF ~IsContained(MatchingFile(filename))
    THEN Outcome("download", client_ip, filename, 403, <<>>, {"listdir"})
    ELSE Outcome("download", client_ip, filename, 200, MatchingFile(filename),
                 {"listdir", "read"})

\* get_workflow_diagram, lines 555-619, up to the file being read.
DiagramOutcome(client_ip, filename) ==
    IF Gate(client_ip, filename) = "400"
    THEN Outcome("diagram", client_ip, filename, 400, <<>>, {})
    ELSE IF Gate(client_ip, filename) = "429"
    THEN Outcome("diagram", client_ip, filename, 429, <<>>, {})
    ELSE IF MatchingFile(filename) = <<>>
    THEN Outcome("diagram", client_ip, filename, 404, <<>>, {"listdir"})
    ELSE Outcome("diagram", client_ip, filename, 200, MatchingFile(filename),
                 {"listdir", "read"})

\* delete_workflow with the store looked up before the filename is checked.
DeleteOutcomeStoreFirst(client_ip, filename, deleted_from_db) ==
    IF ~InStore(filename)
    THEN Outcome("delete", client_ip, filename, 404, <<>>, {"store"})
    ELSE IF Gate(client_ip, filename) = "400"
    THEN Outcome("delete", client_ip, filename, 400, <<>>, {"store"})
    ELSE IF Gate(client_ip, filename) = "429"
    THEN Outcome("delete", client_ip, filename, 429, <<>>, {"store"})
    ELSE IF ~deleted_from_db
    THEN Outcome("delete", client_ip, filename, 500, <<>>, {"store", "listdir"})
    ELSE IF MatchingFile(filename) = <<>>
    THEN Outcome("delete", client_ip, filename, 200, <<>>, {"store", "listdir"})
    ELSE Outcome("delete", client_ip, filename, 200, MatchingFile(filename),
                 {"store", "listdir", "unlink"})

\* delete_workflow, lines 470-552.  deleted_from_db is what
\* db.delete_workflow(filename) returns.
DeleteOutcome(client_ip, filename, deleted_from_db) ==
    IF Gate(client_ip, filename) = "400"
    THEN Outcome("delete", client_ip, filename, 400, <<>>, {})
    ELSE IF Gate(client_ip, filename) = "429"
    THEN Outcome("delete", client_ip, filename, 429, <<>>, {})
    ELSE IF ~InStore(filename)
    THEN Outcome("delete", client_ip, filename, 404, <<>>, {"store"})
    ELSE IF ~deleted_from_db
    THEN Outcome("delete", client_ip, filename, 500, <<>>, {"store", "listdir"})
    ELSE IF MatchingFile(filename) = <<>>
    THEN Outcome("delete", client_ip, filename, 200, <<>>, {"store", "listdir"})
    ELSE Outcome("delete", client_ip, filename, 200, MatchingFile(filename),
                 {"store", "listdir", "unlink"})

\* The three handlers that only read.
GetWorkflowDetail(client_ip, filename) ==
    /\ response' = DetailOutcome(client_ip, filename)
    /\ rate_limit_storage' = RateAfterGate(client_ip, filename)
    /\ UNCHANGED <<clock, log, fs, listing, db>>

DownloadWorkflow(client_ip, filename) ==
    /\ response' = DownloadOutcome(client_ip, filename)
    /\ rate_limit_storage' = RateAfterGate(client_ip, filename)
    /\ UNCHANGED <<clock, log, fs, listing, db>>

GetWorkflowDiagram(client_ip, filename) ==
    /\ response' = DiagramOutcome(client_ip, filename)
    /\ rate_limit_storage' = RateAfterGate(client_ip, filename)
    /\ UNCHANGED <<clock, log, fs, listing, db>>

\* delete_workflow: the store row goes when db.delete_workflow succeeds, the
\* directory entry goes when a matching file was found and unlink did not
\* raise (file_deleted; the exception is printed and dropped).  (The handler then
\* rewrites context/search_categories.json, a file outside the workflows
\* directory that no other modelled step reads.)
DeleteWorkflow(client_ip, filename) ==
    \E deleted_from_db \in BOOLEAN, file_deleted \in BOOLEAN :
        LET out == DeleteOutcome(client_ip, filename, deleted_from_db) IN
        /\ response' = out
        /\ rate_limit_storage' = RateAfterGate(client_ip, filename)
        /\ db' = IF "listdir" \in out.touched /\ deleted_from_db
                 THEN db \ {filename} ELSE db
        /\ fs' = IF "unlink" \in out.touched /\ file_deleted
                 THEN [path \in DOMAIN fs \ {EntryOf(out.file)} |-> fs[path]]
                 ELSE fs
        /\ UNCHANGED <<clock, log, listing>>

----------------------------------------------------------------------------
(* save_workflow_file (lines 711-756) *)

\* The components of a path given as text; pathlib drops the empty and the
\* "." components.
RECURSIVE Parts(_, _)
Parts(text, part) ==
    LET done == IF part \in {"", "."} THEN <<>> ELSE <<part>> IN
    IF text = "" THEN done
    ELSE IF CharAt(text, 1) = "/"
    THEN done \o Parts(SubSeq(text, 2, Len(text)), "")
    ELSE Parts(SubSeq(text, 2, Len(text)), part \o CharAt(text, 1))

\* pathlib's base / text: an absolute text replaces the base.
PathJoin(base, text) ==
    IF StartsWith(text, "/") THEN Parts(text, "") ELSE base \o Parts(text, "")

ParentIsDir(path) == Len(path) = 1 \/ IsDir(SubSeq(path, 1, Len(path) - 1))

\* path.mkdir(exist_ok=True) creates the directory: nothing has that name
\* and the parent is a directory.
MkdirCreates(path) ==
    /\ path # <<>>
    /\ ParentIsDir(path)
    /\ EntryOf(path) \notin DOMAIN fs

\* path.mkdir(exist_ok=True) does not raise.
MkdirOk(path) == path = <<>> \/ IsDir(path) \/ MkdirCreates(path)

\* The filesystem after path.mkdir(exist_ok=True).
AfterMkdir(path) ==
    IF MkdirCreates(path) THEN fs @@ (EntryOf(path) :> DirNode) ELSE fs

\* open(filepath, "w") does not raise in the filesystem `before`: target,
\* the resolved filepath, is a regular file, or is nothing in a directory.
CanOpen(before, target) ==
    IF target \in DOMAIN before THEN before[target].kind = "file"
    ELSE /\ SubSeq(target, 1, Len(target) - 1) \in DOMAIN before
         /\ before[SubSeq(target, 1, Len(target) - 1)].kind = "dir"

\* save_workflow_file raised, leaving the filesystem `after`.
SaveFailed(after) ==
    [ ok |-> FALSE, fs |-> after, filename |-> "", label |-> "",
      filepath |-> <<>>, canonical |-> <<>>, content |-> "" ]

\* Lines 749-756: the document written to filepath.
WriteFile(before, workflow_data, label, filename, filepath, target) ==
    IF ~CanOpen(before, target) THEN SaveFailed(before)
    ELSE [ ok |-> TRUE,
           fs |-> [ path \in DOMAIN before \cup {target} |->
                      IF path = target THEN FileNode(workflow_data.key)
                      ELSE before[path] ],
           filename |-> filename, label |-> label, filepath |-> filepath,
           canonical |-> target, content |-> workflow_data.key ]

\* Lines 718-756, subdirectory being what determine_workflow_directory
\* returned and named the filename arrived at: the subdirectory is made
\* before the filename is.
SaveUnder(workflow_data, subdirectory, named) ==
    IF subdirectory.raised \/ ~MkdirOk(PathJoin(WorkflowsPath, subdirectory.label))
    THEN SaveFailed(fs)
    ELSE IF named.raised
    THEN SaveFailed(AfterMkdir(PathJoin(WorkflowsPath, subdirectory.label)))
    ELSE WriteFile(AfterMkdir(PathJoin(WorkflowsPath, subdirectory.label)),
                   workflow_data, subdirectory.label, named.filename,
                   PathJoin(PathJoin(WorkflowsPath, subdirectory.label),
                            named.filename),
                   Resolve(PathJoin(PathJoin(WorkflowsPath, subdirectory.label),
                                    named.filename)))

\* save_workflow_file(workflow_data, filename) at clock reading t: whether it
\* returned (ok) or raised, the filesystem it leaves, and what it wrote.
SaveResult(workflow_data, filename, t) ==
    SaveUnder(workflow_data, Labels[workflow_data],
              SaveNames[workflow_data, filename, t])

\* The entries of the workflows directory that a filesystem has and the
\* current one has not.
NewRootEntries(after) ==
    { path[Len(path)] :
        path \in { q \in DOMAIN after \ DOMAIN fs :
                      /\ Len(q) = Len(WorkflowsPath) + 1
                      /\ SubSeq(q, 1, Len(WorkflowsPath)) = WorkflowsPath } }

Insertions(order, entry) ==
    { SubSeq(order, 1, i) \o <<entry>> \o SubSeq(order, i + 1, Len(order)) :
        i \in 0..Len(order) }

\* What iterdir() may yield afterwards: a new entry comes anywhere in the
\* order.
ListingsAfter(after) ==
    IF NewRootEntries(after) = {} THEN {listing}
    ELSE UNION { Insertions(listing, entry) : entry \in NewRootEntries(after) }

----------------------------------------------------------------------------
(* upload_workflow (lines 1138-1233) and upload_workflow_json (lines
   1236-1288) *)

uploadVars == <<inflight, saved, indexing>>

NotUploading == [active |-> FALSE, filename |-> ""]

UploadIdle ==
    /\ inflight = [client_ip \in Clients |-> NotUploading]
    /\ saved = <<>>
    /\ indexing = FALSE

\* The filenames of the files uploaded: the provided names, and one that is
\* not a .json file.
UploadedNames == ProvidedNames \cup {"notes.txt"}

\* The response to an upload that did not reach save_workflow_file, or whose
\* save raised.
UploadRefused(client_ip, filename, status) ==
    [ handler |-> "upload", filename |-> filename, status |-> status,
      inWindow |-> Len(Pruned(rate_limit_storage[client_ip], clock)),
      file |-> <<>>, canonical |-> <<>>, content |-> "", touched |-> {} ]

\* Lines 1207-1233 (1262-1288): save the document, queue the indexing task
\* and answer; an exception of save_workflow_file becomes a 500.
SaveAndRespond(client_ip, workflow_data, filename) ==
    \E result \in {SaveResult(workflow_data, filename, clock)} :
        /\ fs' = result.fs
        /\ listing' \in ListingsAfter(result.fs)
        /\ saved' = IF result.ok
                    THEN Append(saved, [ filename |-> result.filename,
                                         label |-> result.label,
                                         filepath |-> result.filepath,
                                         canonical |-> result.canonical,
                                         content |-> result.content ])
                    ELSE saved
        /\ indexing' = (indexing \/ result.ok)
        /\ response' =
              IF result.ok
              THEN [ handler |-> "upload", filename |-> result.filename,
                     status |-> 200,
                     inWindow |-> Len(Pruned(rate_limit_storage[client_ip], clock)),
                     file |-> result.filepath, canonical |-> result.canonical,
                     content |-> result.content, touched |-> {"write"} ]
              ELSE UploadRefused(client_ip, filename, 500)

\* upload_workflow with the document in the workflow_json form field: the
\* handler runs without awaiting anything.
UploadForm(client_ip, workflow_data) ==
    /\ rate_limit_storage' =
          [rate_limit_storage EXCEPT ![client_ip] = RecordAfter(@, clock)]
    /\ IF ~RateAdmits(rate_limit_storage[client_ip], clock)
       THEN /\ response' = UploadRefused(client_ip, NoFilename, 429)
            /\ UNCHANGED <<fs, listing, saved, indexing>>
       ELSE SaveAndRespond(client_ip, workflow_data, NoFilename)
    /\ UNCHANGED <<clock, log, db, inflight>>

\* upload_workflow with a file (filename is file.filename) or with the
\* document as the request body (NoFilename), and upload_workflow_json: the
\* handler up to `await file.read()`, `await request.body()`,
\* `await request.json()`.  A client has one upload in flight at a time.
UploadBegin(client_ip, filename) ==
    /\ ~inflight[client_ip].active
    /\ rate_limit_storage' =
          [rate_limit_storage EXCEPT ![client_ip] = RecordAfter(@, clock)]
    /\ IF ~RateAdmits(rate_limit_storage[client_ip], clock)
       THEN /\ response' = UploadRefused(client_ip, filename, 429)
            /\ UNCHANGED inflight
       ELSE IF filename # NoFilename /\ ~EndsWith(filename, ".json")
       THEN /\ response' = UploadRefused(client_ip, filename, 400)
            /\ UNCHANGED inflight
       ELSE /\ inflight' = [inflight EXCEPT ![client_ip] =
                               [active |-> TRUE, filename |-> filename]]
            /\ UNCHANGED response
    /\ UNCHANGED <<clock, log, fs, listing, db, saved, indexing>>

\* The handler from the await on: the body has arrived and holds the
\* document.
UploadFinish(client_ip, workflow_data) ==
    /\ inflight[client_ip].active
    /\ inflight' = [inflight EXCEPT ![client_ip] = NotUploading]
    /\ SaveAndRespond(client_ip, workflow_data, inflight[client_ip].filename)
    /\ UNCHANGED <<clock, rate_limit_storage, log, db>>

\* The workflow files db.index_all_workflows finds: the regular files one
\* level below the workflows directory.
IndexedNames ==
    { path[Len(path)] :
        path \in { q \in DOMAIN fs :
                      /\ Len(q) = Len(WorkflowsPath) + 2
                      /\ SubSeq(q, 1, Len(WorkflowsPath)) = WorkflowsPath
                      /\ fs[q].kind = "file" } }

\* The background task index_workflow (lines 1210-1217).
IndexWorkflow ==
    /\ indexing
    /\ indexing' = FALSE
    /\ db' = IndexedNames
    /\ UNCHANGED <<clock, rate_limit_storage, log, fs, listing, response,
                   inflight, saved>>

----------------------------------------------------------------------------
(* reindex_workflows (lines 830-870) *)

reindexVars == <<environ, reindex_request>>

NoReindexRequest == [admin_token |-> Absent, force |-> FALSE]

ReindexIdle ==
    /\ environ = Absent
    /\ reindex_request = NoReindexRequest

\* What ADMIN_TOKEN holds: it is not set, set to the empty string, set to a
\* token.
EnvironValues == {Absent, Str(""), Str("s3cret")}

\* The admin_token query parameter: none (None), empty, the token, another.
AdminTokens == {Absent, Str(""), Str("s3cret"), Str("guess")}

\* `not expected_token`: os.environ.get("ADMIN_TOKEN", None) is None or "".
NoExpectedToken == environ.kind = "absent" \/ environ.s = ""

\* The comparison left out: any caller is let through once a token is
\* configured.
TokenMatchesAlways(admin_token) == TRUE

\* `admin_token != expected_token` is false.
TokenMatches(admin_token) == admin_token = environ

\* The status reindex_workflows ends with.
ReindexStatus(client_ip, admin_token) ==
    IF ~RateAdmits(rate_limit_storage[client_ip], clock) THEN 429
    ELSE IF NoExpectedToken THEN 503
    ELSE IF ~TokenMatches(admin_token) THEN 401
    ELSE 200

\* reindex_workflows: run_indexing is queued as a background task only on
\* the last line.
ReindexWorkflows(client_ip, admin_token, force) ==
    /\ rate_limit_storage' = StorageAfter(rate_limit_storage, client_ip, clock)
    /\ reindex_request' = [admin_token |-> admin_token, force |-> force]
    /\ response' =
          [ handler |-> "reindex", filename |-> "",
            status |-> ReindexStatus(client_ip, admin_token),
            inWindow |-> Len(Pruned(rate_limit_storage[client_ip], clock)),
            file |-> <<>>, canonical |-> <<>>, content |-> "",
            touched |-> IF ReindexStatus(client_ip, admin_token) = 200
                        THEN {"schedule"} ELSE {} ]
    /\ indexing' = (indexing \/ ReindexStatus(client_ip, admin_token) = 200)
    /\ UNCHANGED <<clock, log, fs, listing, db, inflight, saved, environ>>

----------------------------------------------------------------------------
(* The states the server starts from: arrangements of the workflows
   directory *)

\* The workflow file the arrangements are about.
StoredName == "w.json"

\* A directory outside the workflows directory, holding a file of that name.
OutsideDir == <<"etc">>

Subdirs == {"Manual", "Slack"}

\* What a subdirectory is at the start:
\*   "empty"       a directory without the file
\*   "file"        a directory holding the file as a regular file
\*   "linkfile"    a directory holding a symbolic link to the outside file
\*   "linkinside"  a directory holding a symbolic link to the other
\*                 subdirectory's file
\*   "linkdir"     itself a symbolic link to the outside directory
EntryKinds == {"empty", "file", "linkfile", "linkinside", "linkdir"}

OtherSubdir(subdir) == CHOOSE other \in Subdirs : other # subdir

ArrangedPaths(kinds) ==
    {Cwd, WorkflowsPath, OutsideDir, Append(OutsideDir, StoredName)}
    \cup { Append(WorkflowsPath, subdir) : subdir \in Subdirs }
    \cup { WorkflowsPath \o <<subdir, StoredName>> :
              subdir \in { d \in Subdirs :
                              kinds[d] \in {"file", "linkfile", "linkinside"} } }

ArrangedNode(kinds, path) ==
    IF path \in {Cwd, WorkflowsPath, OutsideDir} THEN DirNode
    ELSE IF path = Append(OutsideDir, StoredName) THEN FileNode("secret")
    ELSE IF Len(path) = Len(WorkflowsPath) + 1
    THEN IF kinds[path[Len(path)]] = "linkdir" THEN LinkNode(OutsideDir)
         ELSE DirNode
    ELSE LET subdir == path[Len(path) - 1] IN
         IF kinds[subdir] = "file" THEN FileNode(subdir)
         ELSE IF kinds[subdir] = "linkfile"
         THEN LinkNode(Append(OutsideDir, StoredName))
         ELSE LinkNode(WorkflowsPath \o <<OtherSubdir(subdir), StoredName>>)

ArrangedFs(kinds) ==
    [path \in ArrangedPaths(kinds) |-> ArrangedNode(kinds, path)]

\* Files of the stored name where the scan does not look: one directly in
\* the workflows directory, and one in a directory below each real
\* subdirectory.
NestedDir(subdir) == WorkflowsPath \o <<subdir, "deep">>

StrayPaths(kinds) ==
    {Append(WorkflowsPath, StoredName)}
    \cup UNION { {NestedDir(subdir), Append(NestedDir(subdir), StoredName)} :
                   subdir \in { d \in Subdirs : kinds[d] # "linkdir" } }

ArrangedFsWithStrays(kinds) ==
    [ path \in ArrangedPaths(kinds) \cup StrayPaths(kinds) |->
        IF path \in ArrangedPaths(kinds) THEN ArrangedNode(kinds, path)
        ELSE IF path[Len(path)] = StoredName THEN FileNode("stray")
        ELSE DirNode ]

\* The names iterdir() yields for the workflows directory of a filesystem.
RootEntries(files) ==
    { path[Len(path)] :
        path \in { q \in DOMAIN files :
                     /\ Len(q) = Len(WorkflowsPath) + 1
                     /\ SubSeq(q, 1, Len(WorkflowsPath)) = WorkflowsPath } }

\* The orders in which iterdir() may yield a set of entries.
OrdersOf(entries) ==
    { order \in [1..Cardinality(entries) -> entries] :
          \A i, j \in DOMAIN order : i # j => order[i] # order[j] }

\* The orders in which iterdir() may yield the subdirectories.
ListingOrders == OrdersOf(Subdirs)

ServerStart ==
    /\ \E kinds \in [Subdirs -> EntryKinds], strays \in BOOLEAN :
          fs = IF strays THEN ArrangedFsWithStrays(kinds) ELSE ArrangedFs(kinds)
    /\ listing \in OrdersOf(RootEntries(fs))
    /\ db \in SUBSET {StoredName}
    /\ response = NoResponse
    /\ UploadIdle
    /\ ReindexIdle

serverVars == <<fs, listing, db, response, uploadVars, reindexVars>>

----------------------------------------------------------------------------
(* Specifications *)

vars == <<candidate, encodes, validated, verdict, clock, rate_limit_storage, log,
          fs, listing, db, response, inflight, saved, indexing, document, labels,
          environ, reindex_request, graph, diagrams>>

\* A server with an empty workflows directory.
ServerIdle ==
    /\ fs = [path \in {Cwd, WorkflowsPath} |-> DirNode]
    /\ listing = <<>>
    /\ db = {}
    /\ response = NoResponse
    /\ UploadIdle
    /\ ReindexIdle

GuardInit ==
    /\ \E c \in BaseCandidates : GuardStart(c)
    /\ ClassifyIdle
    /\ DiagramIdle
    /\ RateStart
    /\ ServerIdle

GuardNext ==
    \/ (\E i \in 1..Len(candidate) : EncodeChar(i))
          /\ UNCHANGED <<rateVars, serverVars, pureVars>>
    \/ Validate /\ UNCHANGED <<rateVars, serverVars, pureVars>>

SpecGuard == GuardInit /\ [][GuardNext]_vars

RateInit ==
    /\ GuardStart(<<>>)
    /\ ClassifyIdle
    /\ DiagramIdle
    /\ RateStart
    /\ ServerIdle

RateNext ==
    \/ (\E client_ip \in Clients : CheckRateLimit(client_ip))
          /\ UNCHANGED <<guardVars, serverVars, pureVars>>
    \/ Tick /\ UNCHANGED <<guardVars, serverVars, pureVars>>

SpecRate == RateInit /\ [][RateNext]_vars

\* The caller whose requests the server specifications follow.
Callers == {"10.0.0.1"}

\* The server answering requests that carry a filename, from every
\* arrangement of the workflows directory.  The requests of a run arrive
\* within one rate-limit window (SpecRate is where time passes).
Init ==
    /\ GuardStart(<<>>)
    /\ ClassifyIdle
    /\ DiagramIdle
    /\ RateStart
    /\ ServerStart

Next ==
    \/ \E client_ip \in Callers, filename \in RequestNames :
          GetWorkflowDetail(client_ip, filename) /\ UNCHANGED <<guardVars, uploadVars, pureVars, reindexVars>>
    \/ \E client_ip \in Callers, filename \in RequestNames :
          DownloadWorkflow(client_ip, filename) /\ UNCHANGED <<guardVars, uploadVars, pureVars, reindexVars>>
    \/ \E client_ip \in Callers, filename \in RequestNames :
          GetWorkflowDiagram(client_ip, filename) /\ UNCHANGED <<guardVars, uploadVars, pureVars, reindexVars>>
    \/ \E client_ip \in Callers, filename \in RequestNames :
          DeleteWorkflow(client_ip, filename) /\ UNCHANGED <<guardVars, uploadVars, pureVars, reindexVars>>

Spec == Init /\ [][Next]_vars

\* The server answering uploads, from an empty workflows directory beside a
\* directory outside it.  The uploads of a run arrive within one rate-limit
\* window.
UploadInit ==
    /\ GuardStart(<<>>)
    /\ ClassifyIdle
    /\ DiagramIdle
    /\ RateStart
    /\ fs = [path \in {Cwd, WorkflowsPath, OutsideDir} |-> DirNode]
    /\ listing = <<>>
    /\ db = {}
    /\ response = NoResponse
    /\ UploadIdle
    /\ ReindexIdle

UploadNext ==
    \/ \E client_ip \in Callers, workflow_data \in UploadDocs :
          UploadForm(client_ip, workflow_data) /\ UNCHANGED <<guardVars, pureVars, reindexVars>>
    \/ \E client_ip \in Callers, filename \in UploadedNames \cup {NoFilename} :
          UploadBegin(client_ip, filename) /\ UNCHANGED <<guardVars, pureVars, reindexVars>>
    \/ \E client_ip \in Callers, workflow_data \in UploadDocs :
          UploadFinish(client_ip, workflow_data) /\ UNCHANGED <<guardVars, pureVars, reindexVars>>
    \/ IndexWorkflow /\ UNCHANGED <<guardVars, pureVars, reindexVars>>

SpecUpload == UploadInit /\ [][UploadNext]_vars

\* determine_workflow_directory called on a document.
ClassifyInit ==
    /\ GuardStart(<<>>)
    /\ RateStart
    /\ ServerIdle
    /\ document \in ClassifyDocs
    /\ labels = <<>>
    /\ DiagramIdle

ClassifyNext ==
    Classify /\ UNCHANGED <<guardVars, rateVars, serverVars, diagramVars>>

SpecClassify == ClassifyInit /\ [][ClassifyNext]_vars

\* The server answering reindex requests, under each setting of ADMIN_TOKEN.
ReindexInit ==
    /\ GuardStart(<<>>)
    /\ ClassifyIdle
    /\ DiagramIdle
    /\ RateStart
    /\ fs = [path \in {Cwd, WorkflowsPath} |-> DirNode]
    /\ listing = <<>>
    /\ db = {}
    /\ response = NoResponse
    /\ UploadIdle
    /\ environ \in EnvironValues
    /\ reindex_request = NoReindexRequest

ReindexNext ==
    \/ \E client_ip \in Callers, admin_token \in AdminTokens, force \in BOOLEAN :
          ReindexWorkflows(client_ip, admin_token, force)
             /\ UNCHANGED <<guardVars, pureVars>>
    \/ IndexWorkflow /\ UNCHANGED <<guardVars, pureVars, reindexVars>>
    \/ Tick /\ UNCHANGED <<guardVars, pureVars, serverVars>>

SpecReindex == ReindexInit /\ [][ReindexNext]_vars

\* The renderer called on each pair of arguments.
DiagramInit ==
    /\ GuardStart(<<>>)
    /\ RateStart
    /\ ServerIdle
    /\ ClassifyIdle
    /\ graph \in [nodes : DiagramNodeLists, connections : DiagramConnections]
    /\ diagrams = <<>>

DiagramNext ==
    Render /\ UNCHANGED <<guardVars, rateVars, serverVars, classifyVars>>

SpecDiagram == DiagramInit /\ [][DiagramNext]_vars

----------------------------------------------------------------------------
(* Claims about validate_filename, checked under SpecGuard *)

\* The form of s after `rounds` decoding passes exists and contains "..",
\* "/" or "\".
TraversalAfter(s, rounds) ==
    LET d == DecodeTimes(s, rounds) IN
    /\ d.ok
    /\ \/ Contains(d.s, <<46, 46>>)
       \/ Contains(d.s, <<47>>)
       \/ Contains(d.s, <<92>>)

\* C2: a candidate whose form after one, two or three rounds of
\* percent-decoding contains "..", "/" or "\" is rejected by
\* validate_filename.
C2_TraversalRejected ==
    (validated /\ \E rounds \in 1..3 : TraversalAfter(candidate, rounds))
        => ~verdict

\* A traversal character that only the third decoding pass uncovers (a
\* triple-encoded one) has been judged and rejected.
C2_Witness ==
    /\ validated
    /\ ~verdict
    /\ TraversalAfter(candidate, 3)
    /\ ~TraversalAfter(candidate, 2)

\* The pattern [A-Za-z0-9_-]+\.json over the whole string, written out.
C3_Pattern(s) ==
    /\ Len(s) >= 6
    /\ SubSeq(s, Len(s) - 4, Len(s)) = <<46, 106, 115, 111, 110>>
    /\ \A i \in 1..(Len(s) - 5) :
          s[i] \in (48..57) \cup (65..90) \cup (97..122) \cup {45, 95}

\* C3: validate_filename returns true exactly when the candidate decodes
\* without error and its three-times-decoded form is one or more of
\* [A-Za-z0-9_-] followed by ".json" and nothing else; the empty string, the
\* bare ".json", a name with a space and a name with a non-ASCII character
\* are rejected; the deny-list, absolute-path and drive-prefix checks reject
\* no string the pattern accepts.
C3_AcceptsExactlyPattern ==
    validated =>
        LET d == DecodeTimes(candidate, 3) IN
        /\ verdict <=> (d.ok /\ C3_Pattern(d.s))
        /\ candidate \in {<<>>, <<46, 106, 115, 111, 110>>} => ~verdict
        /\ (\E i \in 1..Len(candidate) : candidate[i] = 32 \/ candidate[i] > 127)
              => ~verdict
        /\ (d.ok /\ C3_Pattern(d.s)) =>
              /\ ~HasDangerousPattern(d.s)
              /\ ~IsAbsolutePath(d.s)
              /\ ~HasDriveLetter(d.s)

\* A candidate that needed decoding has been accepted.
C3_Witness == validated /\ verdict /\ encodes >= 1

\* A name with a space has been rejected.
C3_WitnessSpace ==
    validated /\ ~verdict /\ candidate = <<97, 32, 46, 106, 115, 111, 110>>

\* C15: validate_filename is total: whatever the candidate, the call returns
\* a boolean and no exception leaves it; a candidate with a percent-sequence
\* that does not decode within the three passes (bytes that are not UTF-8)
\* is answered with false.
C15_GuardTotal ==
    validated =>
        /\ verdict \in BOOLEAN
        /\ ValidateRaised(candidate) = ""
        /\ (\E rounds \in 1..DecodeRounds : ~DecodeTimes(candidate, rounds).ok)
              => ~verdict

\* A candidate whose escape sequence appears only after a decoding pass and
\* is not UTF-8 (a double-encoded %ff) has been judged.
C15_Witness ==
    /\ validated
    /\ ~verdict
    /\ DecodeTimes(candidate, 1).ok
    /\ ~DecodeTimes(candidate, 2).ok

----------------------------------------------------------------------------
(* Claims about check_rate_limit, checked under SpecRate *)

\* The calls made for one client, in order.
CallsOf(client_ip) == SelectSeq(log, LAMBDA call : call.client = client_ip)

\* The first limit+1 calls of the client came within one second.
BurstOf(client_ip) ==
    LET calls == CallsOf(client_ip) IN
    /\ Len(calls) >= MAX_REQUESTS_PER_MINUTE + 1
    /\ calls[MAX_REQUESTS_PER_MINUTE + 1].t - calls[1].t <= 1

\* C4: from an empty record, of limit+1 calls for one key made within one
\* second the first `limit` return true and the last returns false; the next
\* call, made more than 60 seconds after the first admitted call, returns
\* true again.
C4_BurstThenRecovery ==
    \A client_ip \in Clients :
        LET calls == CallsOf(client_ip) IN
        BurstOf(client_ip) =>
            /\ \A i \in 1..MAX_REQUESTS_PER_MINUTE : calls[i].ok
            /\ ~calls[MAX_REQUESTS_PER_MINUTE + 1].ok
            /\ (Len(calls) >= MAX_REQUESTS_PER_MINUTE + 2
                /\ calls[MAX_REQUESTS_PER_MINUTE + 2].t > calls[1].t + 60)
                  => calls[MAX_REQUESTS_PER_MINUTE + 2].ok

\* A client made its burst, was throttled, and was admitted again after the
\* window had passed.
C4_Witness ==
    \E client_ip \in Clients :
        LET calls == CallsOf(client_ip) IN
        /\ BurstOf(client_ip)
        /\ Len(calls) = MAX_REQUESTS_PER_MINUTE + 2
        /\ calls[MAX_REQUESTS_PER_MINUTE + 2].t > calls[1].t + 60
        /\ calls[MAX_REQUESTS_PER_MINUTE + 2].ok

\* The admitted calls of the client, in order.
AdmittedOf(client_ip) == SelectSeq(CallsOf(client_ip), LAMBDA call : call.ok)

IsCallOf(client_ip) ==
    /\ Len(log') = Len(log) + 1
    /\ log'[Len(log')].client = client_ip

\* C16: a call that returns false records nothing: the key's list afterwards
\* is its list pruned to the window, without a timestamp for the rejected
\* call; a call that returns true leaves the pruned list with exactly one
\* timestamp appended, the current time.
C16_RejectedCallNotRecorded ==
    [][ \A client_ip \in Clients :
          IsCallOf(client_ip) =>
              rate_limit_storage'[client_ip] =
                  IF log'[Len(log')].ok
                  THEN Append(Pruned(rate_limit_storage[client_ip], clock), clock)
                  ELSE Pruned(rate_limit_storage[client_ip], clock) ]_vars

\* A client was rejected one second after its burst and admitted again as
\* soon as the burst left the window: the rejected call did not postpone it.
C16_Witness ==
    \E client_ip \in Clients :
        LET calls == CallsOf(client_ip) IN
        /\ Len(calls) = MAX_REQUESTS_PER_MINUTE + 2
        /\ calls[1].t = 0
        /\ calls[MAX_REQUESTS_PER_MINUTE + 1].t = 1
        /\ ~calls[MAX_REQUESTS_PER_MINUTE + 1].ok
        /\ calls[MAX_REQUESTS_PER_MINUTE + 2].t = 60
        /\ calls[MAX_REQUESTS_PER_MINUTE + 2].ok
        /\ rate_limit_storage[client_ip] = <<60>>

\* C17: distinct keys are independent: a call for one key leaves the list of
\* every other key as it was, and what it returns is decided by the key's own
\* list and the current time alone.
C17_KeysIndependent ==
    [][ \A client_ip \in Clients :
          IsCallOf(client_ip) =>
              /\ \A other \in Clients \ {client_ip} :
                    rate_limit_storage'[other] = rate_limit_storage[other]
              /\ log'[Len(log')].ok =
                    (Cardinality({ i \in DOMAIN rate_limit_storage[client_ip] :
                                     clock - rate_limit_storage[client_ip][i] < 60 })
                        < MAX_REQUESTS_PER_MINUTE) ]_vars

\* A client was admitted while another client's list was full, and full of
\* timestamps that had left the window and stayed where they were.
C17_Witness ==
    /\ log # <<>>
    /\ log[Len(log)].ok
    /\ \E other \in Clients \ {log[Len(log)].client} :
          /\ Len(rate_limit_storage[other]) = MAX_REQUESTS_PER_MINUTE
          /\ log[Len(log)].t - rate_limit_storage[other][1] >= 60

\* C22: the clean-up removes only timestamps strictly older than
\* now - 60: a timestamp exactly 60 seconds old stays in the key's list and
\* counts against the limit, so a call for a key with `limit` timestamps of
\* age at most 60 seconds is rejected.
C22_BoundaryTimestampCounts ==
    [][ \A client_ip \in Clients :
          IsCallOf(client_ip) =>
              LET inWindow == SelectSeq(rate_limit_storage[client_ip],
                                        LAMBDA timestamp : ~(timestamp < clock - 60))
              IN  /\ \A i \in 1..Len(inWindow) :
                        /\ i <= Len(rate_limit_storage'[client_ip])
                        /\ rate_limit_storage'[client_ip][i] = inWindow[i]
                  /\ Len(inWindow) >= MAX_REQUESTS_PER_MINUTE => ~log'[Len(log')].ok ]_vars

\* The time of the client's most recent call.
LastCallOf(client_ip) == CallsOf(client_ip)[Len(CallsOf(client_ip))].t

\* C29: after any sequence of calls made one after another with a
\* non-decreasing clock, every key's list holds at most
\* MAX_REQUESTS_PER_MINUTE timestamps, each less than 60 seconds older than
\* the time of the key's most recent call.
C29_RecordBounded ==
    \A client_ip \in Clients :
        /\ Len(rate_limit_storage[client_ip]) <= MAX_REQUESTS_PER_MINUTE
        /\ CallsOf(client_ip) = <<>> => rate_limit_storage[client_ip] = <<>>
        /\ \A i \in 1..Len(rate_limit_storage[client_ip]) :
              /\ rate_limit_storage[client_ip][i] <= LastCallOf(client_ip)
              /\ LastCallOf(client_ip) - rate_limit_storage[client_ip][i] < 60

\* A client filled its list, and a later call of the same client cleaned it:
\* what is left is younger than 60 seconds at that call.
C29_Witness ==
    \E client_ip \in Clients :
        LET calls == CallsOf(client_ip) IN
        /\ Len(calls) = MAX_REQUESTS_PER_MINUTE + 1
        /\ calls[MAX_REQUESTS_PER_MINUTE].t = 1
        /\ calls[MAX_REQUESTS_PER_MINUTE + 1].t = 60
        /\ rate_limit_storage[client_ip] = <<1, 60>>

----------------------------------------------------------------------------
(* Claims about the handlers that carry a filename, checked under Spec *)

\* C1: whatever subdirectories and symbolic links the workflows directory
\* holds, the file a handler (detail, download, delete, diagram) opens, serves
\* or unlinks has a symlink-resolved path strictly below the resolved
\* workflows directory; it is never the file outside.
C1_ServedFileInsideRoot ==
    response.file # <<>> =>
        /\ Len(response.canonical) > 2
        /\ SubSeq(response.canonical, 1, 2) = <<"srv", "workflows">>
        /\ response.content # "secret"

\* A handler acted on a file although another subdirectory offered, under the
\* same name, a candidate that leads outside the workflows directory.
C1_Witness ==
    /\ response.file # <<>>
    /\ \E subdir \in Subdirs :
          /\ IsCandidate(subdir, response.filename)
          /\ SubSeq(Resolve(WorkflowsPath \o <<subdir, response.filename>>), 1, 1)
                = OutsideDir

\* The filename of the latest request passes the guard.
ResponseNameValid == validate_filename(CodePoints(response.filename))

\* C6: in the detail, download, delete and diagram routes a request whose
\* filename fails validate_filename ends with 400 and a throttled request
\* ends with 429, both without any store lookup, directory listing, file
\* read or unlink; such operations happen only for a request that passed the
\* guard and was admitted by the limiter.
C6_GuardAndLimiterFirst ==
    response.handler # "none" =>
        /\ ~ResponseNameValid =>
              (response.status = 400 /\ response.touched = {})
        /\ (ResponseNameValid /\ response.inWindow >= MAX_REQUESTS_PER_MINUTE) =>
              (response.status = 429 /\ response.touched = {})
        /\ response.touched # {} =>
              (ResponseNameValid /\ response.inWindow < MAX_REQUESTS_PER_MINUTE)

\* A request with a valid filename was throttled.
C6_Witness ==
    /\ response.handler = "delete"
    /\ response.status = 429
    /\ response.touched = {}

\* The subdirectories that hold a regular file of that name, in listing
\* order, contained or not.
CandidateDirs(filename) ==
    SelectSeq(listing, LAMBDA subdir : IsCandidate(subdir, filename))

\* The first candidate found for the filename fails the containment check.
FirstCandidateEscapes(filename) ==
    /\ CandidateDirs(filename) # <<>>
    /\ ~IsContained(WorkflowsPath \o <<CandidateDirs(filename)[1], filename>>)

\* C7: when the candidate found in a subdirectory fails the containment
\* check, the request's outcome is Forbidden (403), which the caller can
\* tell from the NotFound (404) of a file that no subdirectory holds.
\* (Stated for the requests where no other subdirectory holds a contained
\* file of that name, so that Forbidden and NotFound are the only outcomes
\* in question.)
C7_EscapingCandidateForbidden ==
    ( /\ response.handler \in {"detail", "download", "diagram"}
      /\ "listdir" \in response.touched
      /\ FirstCandidateEscapes(response.filename)
      /\ ContainedHits(response.filename) = <<>> )
        => response.status = 403

\* C20: when the first subdirectory, in listing order, that holds a regular
\* file of the requested name fails the containment check, the scan stops:
\* the request returns no file, not even a same-named file that a later
\* subdirectory holds.
C20_ScanStopsAtEscapingCandidate ==
    ( /\ response.handler \in {"detail", "download", "diagram"}
      /\ "listdir" \in response.touched
      /\ FirstCandidateEscapes(response.filename) )
        => response.file = <<>>

\* C19: a delete request that succeeded has removed the workflow from the
\* store and from the filesystem: after it the store has no entry for the
\* filename and no subdirectory of the root holds a contained file of that
\* name; and a delete that unlinked a file has removed the store entry.
C19_DeleteRemovesBoth ==
    /\ (response.handler = "delete" /\ response.status = 200) =>
          /\ response.filename \notin db
          /\ ContainedHits(response.filename) = <<>>
    /\ (response.handler = "delete" /\ "unlink" \in response.touched) =>
          response.filename \notin db

\* The subdirectory holds a regular file of the name, inside the root.
IsHit(subdir, filename) ==
    /\ IsCandidate(subdir, filename)
    /\ IsContained(WorkflowsPath \o <<subdir, filename>>)

\* C21: first match wins.  When every subdirectory that holds a regular file
\* of the requested name passes containment, the file a handler (detail,
\* download, delete, diagram) acts on is the one in the first such
\* subdirectory in directory-listing order; and the file acted on is always
\* <root>/<subdirectory>/<filename> for an entry of the root that is a
\* directory, never a file directly in the root or one nested deeper.
C21_FirstMatchWins ==
    [][ response'.file # <<>> =>
          \E i \in 1..Len(listing) :
              /\ response'.file = WorkflowsPath \o <<listing[i], response'.filename>>
              /\ IsDir(Append(WorkflowsPath, listing[i]))
              /\ IsHit(listing[i], response'.filename)
              /\ response'.content # "stray"
              /\ (\A j \in 1..Len(listing) :
                     IsCandidate(listing[j], response'.filename)
                        => IsHit(listing[j], response'.filename))
                    => \A j \in 1..(i - 1) : ~IsCandidate(listing[j], response'.filename)
      ]_vars

\* Both subdirectories hold a regular file of the name, a file of the name
\* lies directly in the root and is listed first, and the handler acted on
\* the file of the subdirectory listed before the other.
C21_Witness ==
    /\ response.handler = "download"
    /\ response.status = 200
    /\ listing = <<StoredName, "Slack", "Manual">>
    /\ response.content = "Slack"
    /\ IsHit("Manual", response.filename)
    /\ Append(NestedDir("Manual"), StoredName) \in DOMAIN fs

\* C28: the filename a handler looks up in the store and joins onto a
\* category subdirectory, after validate_filename approved it, is itself of
\* the form [A-Za-z0-9_-]+.json: it is the fully decoded string the guard
\* judged.
C28_UsedNameIsJudgedName ==
    (response.handler # "none" /\ response.touched # {}) =>
        /\ MatchesWhole(CodePoints(response.filename))
        /\ DecodeTimes(CodePoints(response.filename), DecodeRounds).s
              = CodePoints(response.filename)

----------------------------------------------------------------------------
(* Claims about save_workflow_file, checked under SpecUpload *)

\* The latest write under a filename.
LastWriteOf(filename) ==
    saved[CHOOSE i \in DOMAIN saved :
            /\ saved[i].filename = filename
            /\ \A j \in DOMAIN saved : saved[j].filename = filename => j <= i]

\* A write went where the layout says: under a name the guard accepts, in a
\* category directory of the workflows directory.
WellPlaced(write) ==
    /\ GuardVerdict[write.filename]
    /\ write.canonical = WorkflowsPath \o <<write.label, write.filename>>

\* C8: round trip.  After any sequence of uploads, for every filename f that
\* save_workflow_file wrote, the guarded read path (validate_filename, then
\* the scan of the immediate subdirectories) finds a file, and its content is
\* what the last write of f stored.  Stated over the runs in which every
\* write was well placed, so that it does not rest on C9 or C10.
C8_RoundTrip ==
    (\A i \in DOMAIN saved : WellPlaced(saved[i]))
    => \A i \in DOMAIN saved :
          LET f == saved[i].filename IN
          /\ GuardVerdict[f]
          /\ MatchingFile(f) # <<>>
          /\ ContentOf(MatchingFile(f)) = LastWriteOf(f).content

\* C9: every label determine_workflow_directory returned for a saved
\* document is a non-empty name without a path separator, and the file was
\* written at exactly <root>/<label>/<filename>.
C9_WrittenOneLevelBelowRoot ==
    \A i \in DOMAIN saved :
        /\ saved[i].label # ""
        /\ ~Contains(saved[i].label, "/")
        /\ saved[i].canonical = WorkflowsPath \o <<saved[i].label, saved[i].filename>>

\* C10: every filename save_workflow_file wrote under passes
\* validate_filename.
C10_WrittenNamesPassGuard ==
    \A i \in DOMAIN saved : validate_filename(CodePoints(saved[i].filename))

----------------------------------------------------------------------------
(* Claims about determine_workflow_directory, checked under SpecClassify *)

\* The value with null and absent read as the empty string.
OrEmpty(value) == IF value.kind = "str" THEN value ELSE Str("")

\* The document with every missing or null type and name replaced by "".
Defaulted(workflow_data) ==
    IF workflow_data.nodes.kind # "list" THEN workflow_data
    ELSE [workflow_data EXCEPT !.nodes =
            ListOf([ i \in DOMAIN workflow_data.nodes.items |->
                       [ type |-> OrEmpty(workflow_data.nodes.items[i].type),
                         name |-> OrEmpty(workflow_data.nodes.items[i].name) ] ])]

\* C11: determine_workflow_directory is total: every call returns a label
\* and none raises, and a node's missing or null name or type counts as the
\* empty string: the label is the one of the document with "" in their
\* place.
C11_ClassifierTotal ==
    \A i \in DOMAIN labels :
        /\ ~labels[i].raised
        /\ labels[i].label = determine_workflow_directory(Defaulted(document)).label

\* The document has one node, of type n8n-nodes-base.slack.
SingleSlackNode ==
    /\ document.nodes.kind = "list"
    /\ Len(document.nodes.items) = 1
    /\ document.nodes.items[1].type = Str("n8n-nodes-base.slack")

\* The keys of service_mappings that come before the key.
KeysBefore(key) ==
    { service_mappings[i][1] :
        i \in { j \in DOMAIN service_mappings :
                  \E k \in DOMAIN service_mappings :
                      j < k /\ service_mappings[k][1] = key } }

\* The calls on the document all returned the label.
AllReturned(label) ==
    \A i \in DOMAIN labels : labels[i] = [raised |-> FALSE, label |-> label]

PlainDocument ==
    /\ document.nodes.kind = "list"
    /\ \A i \in DOMAIN document.nodes.items :
          /\ document.nodes.items[i].type.kind \in {"str", "absent"}
          /\ document.nodes.items[i].name.kind \in {"str", "absent"}

\* The lowercase type and name of node i together contain the keyword.
Mentions(i, keyword) ==
    \/ Contains(Lower(document.nodes.items[i].type.s), keyword)
    \/ Contains(Lower(document.nodes.items[i].name.s), keyword)

\* The label of the first keyword of service_mappings, in its order, that
\* node i mentions; "" when it mentions none.
FirstKeywordLabel(i) ==
    LET found == SelectSeq(service_mappings, LAMBDA pair : Mentions(i, pair[1]))
    IN  IF found = <<>> THEN "" ELSE found[1][2]

\* The three-tier proposal of node i.
TieredProposal(i) ==
    IF Mentions(i, "webhook") THEN "Webhook"
    ELSE IF Mentions(i, "cron") \/ Mentions(i, "schedule") THEN "Schedule"
    ELSE FirstKeywordLabel(i)

\* C23: the proposal of a node follows the three-tier precedence: Webhook if
\* its lowercase type or name contains webhook, otherwise Schedule if they
\* contain cron or schedule, otherwise the label of the first keyword of the
\* table found in them; a document whose only node proposes a label is
\* classified under it (a cron node under Schedule, a node with webhook and
\* telegram under Webhook).
C23_ThreeTierPrecedence ==
    ( /\ PlainDocument
      /\ Len(document.nodes.items) = 1
      /\ TieredProposal(1) # "" )
        => AllReturned(TieredProposal(1))

\* The label the scan of the first k nodes ends with.
ScanOfPrefix(k) == ScanNodes(SubSeq(document.nodes.items, 1, k), 1, "")

\* C24: a proposal replaces the current best label only while it is unset or
\* one of Manual, Webhook, Schedule, and the scan stops at the first node
\* that yields a specific label: once the scan of the first k nodes has a
\* specific label, that label is the result whatever the later nodes are;
\* and of two nodes that each yield a generic label the later one decides.
C24_SpecificLabelIsFinal ==
    document.nodes.kind = "list" =>
        /\ \A k \in 1..Len(document.nodes.items) :
              ( /\ ~ScanOfPrefix(k).raised
                /\ ScanOfPrefix(k).label # ""
                /\ ScanOfPrefix(k).label \notin GenericLabels )
                  => AllReturned(ScanOfPrefix(k).label)
        /\ ( /\ PlainDocument
             /\ Len(document.nodes.items) = 2
             /\ ScanOfPrefix(1).label \in {"Webhook", "Schedule"}
             /\ ScanNodes(SubSeq(document.nodes.items, 2, 2), 1, "").label
                   \in {"Webhook", "Schedule"} )
               => AllReturned(ScanNodes(SubSeq(document.nodes.items, 2, 2), 1, "").label)

\* A document whose first node is a Slack node and whose second node has a
\* null type was classified Slack: the second node was not looked at.
C24_Witness ==
    /\ document.nodes.kind = "list"
    /\ Len(document.nodes.items) = 2
    /\ document.nodes.items[1].type = Str("n8n-nodes-base.slack")
    /\ document.nodes.items[1].name = Str("Notify")
    /\ document.nodes.items[2].type = Null
    /\ labels # <<>>
    /\ AllReturned("Slack")

\* The type with the vendor prefix stripped from its start.
WithoutVendorPrefix(type) ==
    IF StartsWith(type, "n8n-nodes-base.")
    THEN SubSeq(type, Len("n8n-nodes-base.") + 1, Len(type)) ELSE type

\* The segment before the next separator, its first letter upper-cased.
DerivedLabel(type) ==
    LET segment == BeforeFirst(WithoutVendorPrefix(type), ".") IN
    IF segment = "" THEN ""
    ELSE UpperChar(CharAt(segment, 1)) \o SubSeq(segment, 2, Len(segment))

\* C25: when the scan leaves the label unset or Manual, the result is derived
\* from the first node's type: the vendor prefix stripped, the segment before
\* the next separator taken and its first letter capitalized; Manual is the
\* result only when that type is empty.
C25_FallbackFromFirstType ==
    ( /\ PlainDocument
      /\ document.nodes.items # <<>>
      /\ ScanOfPrefix(Len(document.nodes.items)).label \in {"", "Manual"} )
        => IF document.nodes.items[1].type.s = ""
           THEN AllReturned("Manual")
           ELSE AllReturned(DerivedLabel(document.nodes.items[1].type.s))

----------------------------------------------------------------------------
(* Claims about reindex_workflows, checked under SpecReindex *)

\* The latest reindex request was admitted by the limiter.
ReindexAdmitted == response.inWindow < MAX_REQUESTS_PER_MINUTE

\* C18: the reindex endpoint queues reindexing only when ADMIN_TOKEN is
\* configured and the caller's admin_token equals it.  With no token
\* configured an admitted request ends with 503; with a missing or different
\* token it ends with 401; in both cases, and when the request is throttled
\* (429), no task is queued.
C18_ReindexNeedsToken ==
    response.handler = "reindex" =>
        /\ "schedule" \in response.touched <=> response.status = 200
        /\ response.status = 200 =>
              /\ environ.kind = "str" /\ environ.s # ""
              /\ reindex_request.admin_token = environ
        /\ (ReindexAdmitted /\ (environ.kind = "absent" \/ environ.s = ""))
              => response.status = 503
        /\ ( /\ ReindexAdmitted
             /\ environ.kind = "str" /\ environ.s # ""
             /\ reindex_request.admin_token # environ )
              => response.status = 401
        /\ ~ReindexAdmitted => response.status = 429

\* A request without admin_token was refused with 401, and no indexing task
\* is queued.
C18_Witness ==
    /\ response.handler = "reindex"
    /\ response.status = 401
    /\ reindex_request.admin_token = Absent
    /\ ~indexing

----------------------------------------------------------------------------
(* Claims about generate_mermaid_diagram, checked under SpecDiagram *)

\* text.split("\n")
RECURSIVE SplitLines(_)
SplitLines(text) ==
    IF ~Contains(text, "\n") THEN <<text>>
    ELSE <<BeforeFirst(text, "\n")>>
            \o SplitLines(SubSeq(text, Len(BeforeFirst(text, "\n")) + 2, Len(text)))

\* The part of a string after its last space.
RECURSIVE AfterLastSpace(_)
AfterLastSpace(str) ==
    IF ~Contains(str, " ") THEN str
    ELSE AfterLastSpace(SubSeq(str, Len(BeforeFirst(str, " ")) + 2, Len(str)))

\* The lines of a returned diagram that declare a node, and those that are
\* edges.
DeclarationLines(text) ==
    SelectSeq(SplitLines(text), LAMBDA line : Contains(line, "[\""))

EdgeLines(text) ==
    SelectSeq(SplitLines(text), LAMBDA line : Contains(line, " --"))

\* The identifiers declared by a diagram.
DeclaredIds(text) ==
    { BeforeFirst(SubSeq(DeclarationLines(text)[n], 3, Len(DeclarationLines(text)[n])), "[") :
        n \in 1..Len(DeclarationLines(text)) }

\* The two identifiers an edge line joins.
EdgeEnds(line) ==
    { BeforeFirst(SubSeq(line, 3, Len(line)), " "), AfterLastSpace(line) }

\* C12: generate_mermaid_diagram returns diagram text for every node
\* sequence and connections value and never raises: every node, one without
\* a name or a type included, is declared, and malformed connection shapes
\* are skipped.
C12_RendererTotal ==
    \A call \in 1..Len(diagrams) :
        /\ diagrams[call].raised = ""
        /\ graph.nodes.kind = "list" /\ graph.nodes.items # <<>> =>
              Len(DeclarationLines(diagrams[call].text)) = Len(graph.nodes.items)

\* The target entries (source j, output i, entry k) of a connections object
\* whose source name and target name are both keys of the identifier table.
KnownTargets(connections, mermaid_ids) ==
    { target \in
        UNION { UNION { { <<j, i, k>> :
                            k \in 1..Len(connections.items[j][2].main.items[i + 1].items) } :
                        i \in { i \in 0..(Len(connections.items[j][2].main.items) - 1) :
                                  connections.items[j][2].main.items[i + 1].kind = "list" } } :
                j \in { j \in 1..Len(connections.items) :
                          /\ Str(connections.items[j][1]) \in DOMAIN mermaid_ids
                          /\ connections.items[j][2].kind = "dict"
                          /\ connections.items[j][2].main.kind = "list" } } :
        LET entry == connections.items[target[1]][2].main.items[target[2] + 1].items[target[3]]
        IN  /\ entry.kind = "dict"
            /\ entry.node.kind = "str"
            /\ entry.node \in DOMAIN mermaid_ids }

\* The edge line of a target entry: annotated with the output index when the
\* source has more than one output.
EdgeOf(target, connections, mermaid_ids) ==
    LET main == connections.items[target[1]][2].main.items IN
    "  " \o mermaid_ids[Str(connections.items[target[1]][1])]
         \o (IF Len(main) > 1 THEN " -->|" \o Digits(target[2]) \o "| " ELSE " --> ")
         \o mermaid_ids[main[target[2] + 1].items[target[3]].node]

\* The two-node example.
ExampleGraph ==
    [ nodes |-> ListOf(<< [type |-> Str("webhook"), name |-> Str("A")],
                          [type |-> Str("httpRequest"), name |-> Str("B")] >>),
      connections |->
          DictOf(<< <<"A", SourceDict(ListOf(<<ListOf(<<EntryDict(Str("B"))>>)>>))>> >>) ]

\* C14: a returned diagram has exactly one edge per target entry (source,
\* output, target) whose source name and target name are both in the
\* identifier table, entries under an unknown source or naming an unknown
\* target being skipped; every edge joins two identifiers that the diagram
\* declares as nodes; the two-node example yields the single edge
\* node0 --> node1 and two styled declarations.
C14_EdgesJoinDeclaredNodes ==
    \A call \in 1..Len(diagrams) :
        ( /\ diagrams[call].raised = ""
          /\ graph.nodes.kind = "list" /\ graph.nodes.items # <<>>
          /\ graph.connections.kind = "dict" ) =>
            LET text == diagrams[call].text
                mermaid_ids == MermaidIds(graph.nodes.items)
                targets == KnownTargets(graph.connections, mermaid_ids)
            IN  /\ Len(EdgeLines(text)) = Cardinality(targets)
                /\ { EdgeLines(text)[n] : n \in 1..Len(EdgeLines(text)) }
                      = { EdgeOf(target, graph.connections, mermaid_ids) : target \in targets }
                /\ \A n \in 1..Len(EdgeLines(text)) :
                      EdgeEnds(EdgeLines(text)[n]) \subseteq DeclaredIds(text)
                /\ graph = ExampleGraph =>
                      /\ EdgeLines(text) = <<"  node0 --> node1">>
                      /\ Len(DeclarationLines(text)) = 2
                      /\ Len(SelectSeq(SplitLines(text),
                                       LAMBDA line : StartsWith(line, "  style "))) = 2

\* The call returned the diagram of a non-empty node list and a connections
\* object.
ReturnedDiagram(call) ==
    /\ diagrams[call].raised = ""
    /\ graph.nodes.kind = "list" /\ graph.nodes.items # <<>>
    /\ graph.connections.kind = "dict"

\* The sources of a connections object that can have edges: known names
\* whose value is an object with a "main" list.
EdgeSources(connections, mermaid_ids) ==
    { j \in 1..Len(connections.items) :
        /\ Str(connections.items[j][1]) \in DOMAIN mermaid_ids
        /\ connections.items[j][2].kind = "dict"
        /\ connections.items[j][2].main.kind = "list" }

\* The edge lines of a diagram that leave the identifier.
EdgesFrom(text, source_id) ==
    SelectSeq(EdgeLines(text), LAMBDA line : StartsWith(line, "  " \o source_id \o " "))

\* C26: an edge carries its output index as annotation exactly when the
\* "main" list of its source has more than one output: with several outputs
\* every edge of the source reads -->|i| for an output i of the source, with
\* a single output every edge reads --> without annotation, however many
\* targets the output has.
C26_AnnotatedIffSeveralOutputs ==
    \A call \in 1..Len(diagrams) :
        ReturnedDiagram(call) =>
            LET mermaid_ids == MermaidIds(graph.nodes.items) IN
            \A j \in EdgeSources(graph.connections, mermaid_ids) :
                LET main == graph.connections.items[j][2].main.items
                    edges == EdgesFrom(diagrams[call].text,
                                       mermaid_ids[Str(graph.connections.items[j][1])])
                IN  \A n \in 1..Len(edges) :
                        IF Len(main) > 1
                        THEN \E i \in 0..(Len(main) - 1) :
                                /\ main[i + 1].kind = "list"
                                /\ Contains(edges[n], " -->|" \o Digits(i) \o "| ")
                        ELSE /\ Contains(edges[n], " --> ")
                             /\ ~Contains(edges[n], "|")

\* A source with a single output of two targets has its two edges, both
\* without annotation.
C26_Witness ==
    /\ graph.nodes = ListOf(<< [type |-> Str("webhook"), name |-> Str("A")],
                               [type |-> Str("httpRequest"), name |-> Str("B")] >>)
    /\ graph.connections =
          DictOf(<< <<"A", SourceDict(ListOf(<<
                      ListOf(<<EntryDict(Str("B")), EntryDict(Str("A"))>>) >>))>> >>)
    /\ diagrams # <<>>
    /\ EdgeLines(diagrams[1].text) = <<"  node0 --> node1", "  node0 --> node0">>

\* The position, counted from 0, of the last node that has the name.
LastNamed(name) ==
    CHOOSE i \in 0..(Len(graph.nodes.items) - 1) :
        /\ graph.nodes.items[i + 1].name = name
        /\ \A j \in 0..(Len(graph.nodes.items) - 1) :
              graph.nodes.items[j + 1].name = name => j <= i

\* C27: identifiers are given by input position and looked up by name, the
\* last node of a name winning: a returned diagram has one declaration per
\* input node, in input order; the declaration of a named node carries the
\* identifier of the last node of that name; and the identifier of a node
\* that a later node shares its name with appears nowhere in the diagram,
\* in no declaration and in no edge.
C27_LastNameWins ==
    \A call \in 1..Len(diagrams) :
        ReturnedDiagram(call) =>
            LET text == diagrams[call].text
                items == graph.nodes.items
            IN  /\ Len(DeclarationLines(text)) = Len(items)
                /\ \A k \in 1..Len(items) :
                      items[k].name.kind = "str" =>
                          /\ StartsWith(DeclarationLines(text)[k],
                                        "  " \o NodeId(LastNamed(items[k].name)) \o "[\""
                                             \o items[k].name.s \o "<br>")
                          /\ LastNamed(items[k].name) # k - 1
                                => ~Contains(text, NodeId(k - 1))

\* Two nodes named A and an edge from A to A: both declarations and the edge
\* use node1, and node0 is nowhere.
C27_Witness ==
    /\ graph.nodes = ListOf(<< [type |-> Str("webhook"), name |-> Str("A")],
                               [type |-> Str("httpRequest"), name |-> Str("A")] >>)
    /\ graph.connections =
          DictOf(<< <<"A", SourceDict(ListOf(<<
                      ListOf(<<EntryDict(Str("B")), EntryDict(Str("A"))>>) >>))>> >>)
    /\ diagrams # <<>>
    /\ EdgeLines(diagrams[1].text) = <<"  node1 --> node1">>
    /\ ~Contains(diagrams[1].text, "node0")

====
